---- MODULE Spec2Model ----
(***************************************************************************)
(* Model of the admin dashboard's annual report pipeline                   *)
(* (src/src/pages/AnnualReports.jsx): the aggregator functions, the        *)
(* chunked deposit/loan fetchers with their missing-index fallback, and    *)
(* the page's fetchUserReports state machine.                              *)
(*                                                                         *)
(* Time.  A JavaScript Date is an instant in milliseconds.  The model      *)
(* keeps the real calendar (month lengths, leap years) and scales the      *)
(* length of a day down to TicksPerDay instants, counted from local        *)
(* midnight of 1 January EpochYear.  A record's timestamp is the instant   *)
(* its Date (timestamp.toDate(), or new Date(timestamp)) denotes.          *)
(***************************************************************************)
EXTENDS Integers, Sequences, FiniteSets, TLC

VARIABLES
    \* ---- aggregator calls (calculateUserTotals, groupDataByMonth) ----
    phase,          \* "input" before the call, "returned" after it
    argDeposits,    \* the deposits argument
    argLoans,       \* the loans argument
    argYear,        \* the year argument of groupDataByMonth
    retTotals,      \* what calculateUserTotals returned
    retMonthly,     \* what groupDataByMonth returned
    \* ---- one fetchDepositsForUsers / fetchLoansForUsers call ----
    db,             \* the document database: [deposits, loans], each the
                    \* collection's documents in document-id order
    argQuery,       \* [userIds, startDate, endDate] of the call
    retFetch,       \* the mapping the call returned: [keys, data]
    retOutcome,     \* how the call's queries ended ("none" before the call)
    \* ---- the annual reports page (AnnualReportsPage) ----
    selectedYear,   \* useState(currentYear)
    selectedMonth,  \* useState('all'): "all" or "1".."12"
    users,          \* useState([])
    userReports,    \* useState({}): user id -> report
    chartData,      \* useState(null): <<>> is null, <<v>> is the value v
    comparisonData, \* useState(null): <<>> is null, <<v>> is the value v
    loading,        \* useState(true)
    error,          \* useState(null)
    indexError,     \* useState({deposits: null, loans: null})
    fetches,        \* the fetchUserReports invocations started so far, in
                    \* order, each with its closure and local variables
    \* ---- one rendering of a paginated sequence ----
    pgArgs,         \* [data, itemsPerPage, currentPage] of the rendering
    pgRet,          \* [totalPages, currentData] it computed
    \* ---- the users summary table and the user report modal ----
    debouncedSearchQuery,  \* useDebounce(searchQuery, 300)
    showOnlyUnpaid, \* useState(false)
    currentPage,    \* useState(1) of AnnualReportsPage
    selectedUser,   \* useState(null): <<>> is null, <<u>> is user id u
    isModalOpen,    \* useState(false)
    modalPages,     \* currentPage of the modal's two PaginatedTable
                    \* components: [deposits, loans], 0 when not mounted
    crashed,        \* a render of the page threw: the tree is unmounted
    \* ---- one exportToPDF call ----
    pdfArgs,        \* [userReports, year, save]: the arguments (userReports
                    \* is <<>> for null and <<a>> for the array a), and
                    \* whether doc.save succeeds in the browser
    pdfRet,         \* how the call ended: [kind |-> "none"] before it,
                    \* [kind |-> "returned", value] or [kind |-> "thrown"]
    \* ---- the moderation pages: interest settings, deposits, loans ----
    route,          \* which of the three pages is mounted
    interestDocs,   \* the interest collection, in creation order:
                    \* records [id, interest, timestamp]
    interestPage,   \* state of AdminInterestSettings: [interest, loading,
                    \* saving, message, messageType, historyData,
                    \* interestDocId]
    saveCall,       \* where the handleSave invocation stands: [pc] with
                    \* the data it carries
    docStatus,      \* the stored documents: [deposits, loans]: document
                    \* id -> status field, and [receiptUrl]: loan id ->
                    \* receiptUrl field (<<>> when it has none)
    depositsPage,   \* state of DepositsPage: [deposits, processing,
                    \* error], deposits being the listener's last snapshot
    loansPage,      \* state of the loans page: [loans, processing,
                    \* receiptFiles, error]
    otherSession,   \* the last snapshots of the same two pages open in a
                    \* second admin session: [deposits, loans]
    calls,          \* the approve / deny invocations awaiting the backend
    \* ---- one chunking of the user ids in fetchUserReports ----
    chunkArg,       \* userIds
    chunkRet,       \* [done, userIdChunks, queries]: the chunks built and
                    \* the chunk queries issued for them
    \* ---- the blocked-user check ----
    authUser,       \* auth.currentUser: <<>> is null, <<u>> is user u
    ctxUser,        \* currentUser of the auth context
    userDoc,        \* the signed-in user's document: [exists, isBlocked]
    location,       \* the route shown
    intervalSet,    \* the effect of BlockedUserChecker has run
    checks,         \* the check invocations awaiting the backend
    lastReturn,     \* what checkUserBlockStatus returned last: [user,
                    \* read, value]
    \* ---- the views that listen in real time, and the chat ----
    screen,         \* the view: [name, mounted, currentUser, usersLoaded,
                    \* cleanups], cleanups being what each listening
                    \* effect returned: <<>> or <<id>> for the unsubscribe
                    \* of listener id
    listeners,      \* the listeners registered with the backend and not
                    \* ended: records [id, query]
    chatForm,       \* ChatBox: [newMessage, selectedImage, alerted]
    messagesDb,     \* the messages collection, in creation order
    sends,          \* the sendMessage invocations awaiting the backend
    presence        \* [isOnline, heartbeat, writes]: the stored isOnline
                    \* of the user, whether the interval is set, and the
                    \* writes to the user's document not yet settled, in
                    \* the order they were issued

aggVars == <<phase, argDeposits, argLoans, argYear, retTotals, retMonthly>>

queryVars == <<argQuery, retFetch, retOutcome>>

pageVars ==
    <<selectedYear, selectedMonth, users, userReports, chartData,
      comparisonData, loading, error, indexError, fetches>>

pagingVars == <<pgArgs, pgRet>>

viewVars ==
    <<debouncedSearchQuery, showOnlyUnpaid, currentPage, selectedUser,
      isModalOpen, modalPages, crashed>>

pdfVars == <<pdfArgs, pdfRet>>

adminVars ==
    <<route, interestDocs, interestPage, saveCall, docStatus, depositsPage,
      loansPage, otherSession, calls>>

chunkVars == <<chunkArg, chunkRet>>

blockVars ==
    <<authUser, ctxUser, userDoc, location, intervalSet, checks, lastReturn>>

liveVars == <<screen, listeners, chatForm, messagesDb, sends, presence>>

moreVars == <<chunkVars, blockVars, liveVars>>

otherVars == <<pagingVars, viewVars, pdfVars, adminVars, moreVars>>

\* what the handlers of the summary table and the modal leave alone
outsideView ==
    <<aggVars, db, queryVars, pagingVars, pdfVars, adminVars, moreVars,
      selectedYear,
      selectedMonth, users, chartData, comparisonData, indexError, fetches>>

\* what the handlers of the moderation pages leave alone
outsideAdmin ==
    <<aggVars, db, queryVars, pageVars, pagingVars, viewVars, pdfVars,
      moreVars>>

\* what a specification of the moderation pages or of the later sections
\* leaves alone
outsideMore ==
    <<aggVars, db, queryVars, pageVars, pagingVars, viewVars, pdfVars,
      adminVars>>

outsideBlock == <<outsideMore, chunkVars, liveVars>>

outsideLive == <<outsideMore, chunkVars, blockVars>>

vars == <<aggVars, db, queryVars, pageVars, otherVars>>

----------------------------------------------------------------------------
(* Bounds of the model *)

\* longest text typed into the interest rate input
MaxText == 3
\* latest instant at which an interest rate is saved
MaxClock == 2
\* most interest documents stored before the page is opened
MaxStored == 1
\* deposits and loans listed on the moderation pages
MaxItems == 2
\* most listener ids in use at one time
MaxSubs == 4
\* most writes of the presence effect awaiting the backend at one time
MaxWrites == 3
\* most messages sent
MaxMessages == 2
\* most user ids handed to the chunking (three chunks)
MaxIds == 21
\* most blocked-user checks awaiting the backend at one time
MaxInFlight == 2
\* instants per day (a real day has 86,400,000 milliseconds)
TicksPerDay == 2
\* longest deposits / loans list handed to calculateUserTotals
MaxLen == 2
\* longest deposits list handed to groupDataByMonth
MaxRecs == 2
\* most documents in a collection of the fetcher checks
MaxDocs == 3
\* users in the users collection of the page checks (two chunks)
NumUsers == 11
\* fetchUserReports invocations started in one run of the page
MaxFetches == 2
\* chunk queries of one fetchUserReports invocation that are rejected
MaxFaults == 1

\* longest sequence given to a paginated view
MaxRows == 41

\* users of the summary table's specification
NumRows == 21

----------------------------------------------------------------------------
(* Calendar: new Date(y, m, d), date-fns startOfYear/endOfYear/format *)

FirstYear == 2022
EpochYear == FirstYear - 1
CurrentYear == 2023

IsLeapYear(y) == (y % 4 = 0 /\ y % 100 # 0) \/ y % 400 = 0

DaysInMonth(y, m) ==
    CASE m \in {1, 3, 5, 7, 8, 10, 12} -> 31
      [] m \in {4, 6, 9, 11} -> 30
      [] OTHER -> IF IsLeapYear(y) THEN 29 ELSE 28

DaysInYear(y) == IF IsLeapYear(y) THEN 366 ELSE 365

RECURSIVE DaysBeforeYear(_)
DaysBeforeYear(y) ==
    IF y <= EpochYear THEN 0 ELSE DaysBeforeYear(y - 1) + DaysInYear(y - 1)

RECURSIVE DaysBeforeMonth(_, _)
DaysBeforeMonth(y, m) ==
    IF m <= 1 THEN 0 ELSE DaysBeforeMonth(y, m - 1) + DaysInMonth(y, m - 1)

\* days from the epoch to the first of month m of year y, tabulated
\* (f @@ <<>> is f, evaluated once into a table)
DayTable ==
    [y \in EpochYear..(CurrentYear + 2) |->
        [m \in 1..12 |-> DaysBeforeYear(y) + DaysBeforeMonth(y, m)] @@ <<>>]
    @@ <<>>

\* new Date(year, monthIndex, day): local midnight of that day.  monthIndex
\* is 0-based and may be 12 (January of the next year); day 0 is the last
\* day of the month before.
NewDate(year, monthIndex, day) ==
    LET y == year + (monthIndex \div 12)
        m == (monthIndex % 12) + 1
    IN  (DayTable[y][m] + (day - 1)) * TicksPerDay

\* the instants the model's calendar covers
Instants == 0..(NewDate(CurrentYear + 2, 0, 1) - 1)

\* Date.getFullYear() and Date.getMonth() + 1 of every instant, tabulated
DateParts ==
    [ t \in Instants |->
        LET y == CHOOSE yy \in EpochYear..(CurrentYear + 1) :
                     /\ NewDate(yy, 0, 1) <= t
                     /\ t < NewDate(yy + 1, 0, 1)
            m == CHOOSE mm \in 1..12 :
                     /\ NewDate(y, mm - 1, 1) <= t
                     /\ t < NewDate(y, mm, 1)
        IN  [year |-> y, month |-> m] ] @@ <<>>

YearOf(t) == DateParts[t].year

MonthOf(t) == DateParts[t].month

MonthNames ==
    <<"Jan", "Feb", "Mar", "Apr", "May", "Jun",
      "Jul", "Aug", "Sep", "Oct", "Nov", "Dec">>

\* date-fns format(date, 'MMM')
FormatMMM(t) == MonthNames[MonthOf(t)]

\* date-fns startOfYear(date): 1 January 00:00:00.000 of the date's year
startOfYear(t) == NewDate(YearOf(t), 0, 1)

\* date-fns endOfYear(date): 31 December 23:59:59.999, the last instant
endOfYear(t) == NewDate(YearOf(t) + 1, 0, 1) - 1

getStartOfYear(year) == startOfYear(NewDate(year, 0, 1))

getEndOfYear(year) == endOfYear(NewDate(year, 0, 1))

getStartOfMonth(year, month) == NewDate(year, month - 1, 1)

getEndOfMonth(year, month) == NewDate(year, month, 0)

----------------------------------------------------------------------------
(* Aggregator *)

\* paymentStatus of a loan document that has no such field
Absent == "undefined"

\* Array.prototype.reduce((sum, x) => sum + x.amount, 0): a left fold
RECURSIVE ReduceAmount(_, _, _)
ReduceAmount(seq, i, sum) ==
    IF i > Len(seq) THEN sum ELSE ReduceAmount(seq, i + 1, sum + seq[i].amount)

\* mutant: the fold starts at the second element
SumAmountsSkipFirst(seq) == ReduceAmount(seq, 2, 0)

SumAmounts(seq) == ReduceAmount(seq, 1, 0)

\* mutant: the comparison ignores case
IsPaidAnyCase(loan) == loan.paymentStatus \in {"approved", "Approved"}

IsPaid(loan) == loan.paymentStatus = "approved"

\* mutant: only the pending loans count as unpaid
IsUnpaidPending(loan) == loan.paymentStatus = "pending"

IsUnpaid(loan) == loan.paymentStatus # "approved"

calculateUserTotals(deposits, loans) ==
    [ totalDeposits    |-> SumAmounts(deposits),
      totalLoans       |-> SumAmounts(loans),
      paidLoansCount   |-> Len(SelectSeq(loans, IsPaid)),
      unpaidLoansCount |-> Len(SelectSeq(loans, IsUnpaid)) ]

InMonthWindow(rec, year, month) ==
    /\ rec.timestamp >= getStartOfMonth(year, month)
    /\ rec.timestamp <= getEndOfMonth(year, month)

MonthBucket(deposits, loans, year, month) ==
    LET InWin(r) == InMonthWindow(r, year, month)
    IN  [ month    |-> FormatMMM(getStartOfMonth(year, month)),
          deposits |-> SumAmounts(SelectSeq(deposits, InWin)),
          loans    |-> SumAmounts(SelectSeq(loans, InWin)) ]

\* mutant: the loop runs over the 0-based month indices 0..11
groupDataByMonthZeroBased(deposits, loans, year) ==
    [ month \in 1..12 |-> MonthBucket(deposits, loans, year, month - 1) ]

\* for (month = 1; month <= 12; month++) monthlyData.push({...})
groupDataByMonth(deposits, loans, year) ==
    [ month \in 1..12 |-> MonthBucket(deposits, loans, year, month) ]

----------------------------------------------------------------------------
(* Data fetcher: the document database's queries and the two fetchers *)

InChunk(doc, userIds) == \E i \in 1..Len(userIds) : userIds[i] = doc.userId

\* depositDate >= startDate && depositDate <= endDate
InRange(doc, startDate, endDate) ==
    /\ doc.timestamp >= startDate
    /\ doc.timestamp <= endDate

\* orderBy('timestamp', 'desc'): the backend orders by timestamp descending
\* and, among equal timestamps, by document id in the same direction
ComesBefore(a, b) ==
    \/ a.timestamp > b.timestamp
    \/ (a.timestamp = b.timestamp /\ a.id > b.id)

\* the documents docs[i], i \in S, in the order of ComesBefore
RECURSIVE OrderDesc(_, _)
OrderDesc(docs, S) ==
    IF S = {} THEN <<>>
    ELSE LET i == CHOOSE k \in S :
                      \A j \in S \ {k} : ComesBefore(docs[k], docs[j])
         IN  <<docs[i]>> \o OrderDesc(docs, S \ {i})

\* query(where('userId','in',userIds), where('timestamp','>=',startDate),
\*       where('timestamp','<=',endDate), orderBy('timestamp','desc'))
IndexedQuery(docs, userIds, startDate, endDate) ==
    OrderDesc(docs,
              { i \in 1..Len(docs) : /\ InChunk(docs[i], userIds)
                                     /\ InRange(docs[i], startDate, endDate) })

\* query(where('userId','in',userIds)): documents in document-id order
EqualityQuery(docs, userIds) ==
    LET Match(d) == InChunk(d, userIds) IN SelectSeq(docs, Match)

\* Object.keys(data): the user ids in the order their first document came
RECURSIVE KeysOf(_, _)
KeysOf(snapshot, seen) ==
    IF snapshot = <<>> THEN <<>>
    ELSE IF Head(snapshot).userId \in seen
         THEN KeysOf(Tail(snapshot), seen)
         ELSE <<Head(snapshot).userId>>
              \o KeysOf(Tail(snapshot), seen \cup {Head(snapshot).userId})

\* querySnapshot.forEach(doc => { data[doc.userId] ||= []; push })
GroupByUser(snapshot) ==
    [ keys |-> KeysOf(snapshot, {}),
      data |-> [ u \in { snapshot[i].userId : i \in 1..Len(snapshot) } |->
                   LET Mine(d) == d.userId = u IN SelectSeq(snapshot, Mine) ] ]

\* Array.prototype.sort((a, b) => dateB - dateA): a stable sort, descending
RECURSIVE InsertDesc(_, _)
InsertDesc(sorted, x) ==
    IF sorted = <<>> THEN <<x>>
    ELSE IF Head(sorted).timestamp >= x.timestamp
         THEN <<Head(sorted)>> \o InsertDesc(Tail(sorted), x)
         ELSE <<x>> \o sorted

RECURSIVE SortDescFrom(_, _, _)
SortDescFrom(seq, i, sorted) ==
    IF i > Len(seq) THEN sorted
    ELSE SortDescFrom(seq, i + 1, InsertDesc(sorted, seq[i]))

SortDesc(seq) == SortDescFrom(seq, 1, <<>>)

\* return {} of the outer catch
EmptyMapping == [ keys |-> <<>>, data |-> [ u \in {} |-> <<>> ] ]

\* How the queries of one fetcher call end:
\*   "ok"          the indexed query succeeds
\*   "index"       it is rejected with 'requires an index'; the fallback
\*                 query succeeds
\*   "index_error" it is rejected with 'requires an index'; the fallback
\*                 query is rejected too
\*   "error"       it is rejected with another error
Outcomes == {"ok", "index", "index_error", "error"}

IndexedPath(docs, userIds, startDate, endDate) ==
    GroupByUser(IndexedQuery(docs, userIds, startDate, endDate))

\* mutant: the fallback forgets the in-memory sort
FallbackPathUnsorted(docs, userIds, startDate, endDate) ==
    LET Keep(d) == InRange(d, startDate, endDate)
    IN  GroupByUser(SelectSeq(EqualityQuery(docs, userIds), Keep))

FallbackPath(docs, userIds, startDate, endDate) ==
    LET Keep(d) == InRange(d, startDate, endDate)
        g == GroupByUser(SelectSeq(EqualityQuery(docs, userIds), Keep))
    IN  [ keys |-> g.keys,
          data |-> [ u \in DOMAIN g.data |-> SortDesc(g.data[u]) ] ]

\* what is returned when the indexed query was rejected with another error
\* (throw indexErr, caught by the outer catch) or the fallback query failed
RejectedPath(docs, userIds, startDate, endDate) == EmptyMapping

\* mutant: a missing index is handled like any other error
FetchForUsersNoFallback(docs, userIds, startDate, endDate, outcome) ==
    CASE outcome = "ok" -> IndexedPath(docs, userIds, startDate, endDate)
      [] OTHER          -> RejectedPath(docs, userIds, startDate, endDate)

FetchForUsers(docs, userIds, startDate, endDate, outcome) ==
    CASE outcome = "ok"    -> IndexedPath(docs, userIds, startDate, endDate)
      [] outcome = "index" -> FallbackPath(docs, userIds, startDate, endDate)
      [] OTHER             -> RejectedPath(docs, userIds, startDate, endDate)

fetchDepositsForUsers(userIds, startDate, endDate, outcome) ==
    FetchForUsers(db.deposits, userIds, startDate, endDate, outcome)

fetchLoansForUsers(userIds, startDate, endDate, outcome) ==
    FetchForUsers(db.loans, userIds, startDate, endDate, outcome)

----------------------------------------------------------------------------
(* The annual reports page: fetchUserReports and what triggers it *)

Null == "null"

IndexMessage == "The query requires an index"

\* Firestore limit for 'in' queries: userIds.slice(i, i + 10)
ChunkSize == 10

Min(a, b) == IF a <= b THEN a ELSE b

\* mutant: the loop advances by one less than the chunk size
RECURSIVE ChunkLoopOverlap(_, _)
ChunkLoopOverlap(userIds, i) ==
    IF i >= Len(userIds) THEN <<>>
    ELSE <<SubSeq(userIds, i + 1, Min(i + ChunkSize, Len(userIds)))>>
         \o ChunkLoopOverlap(userIds, i + ChunkSize - 1)

\* for (let i = 0; i < userIds.length; i += 10) chunks.push(slice(i, i + 10))
RECURSIVE ChunkLoop(_, _)
ChunkLoop(userIds, i) ==
    IF i >= Len(userIds) THEN <<>>
    ELSE <<SubSeq(userIds, i + 1, Min(i + ChunkSize, Len(userIds)))>>
         \o ChunkLoop(userIds, i + ChunkSize)

userIdChunks(userIds) == ChunkLoop(userIds, 0)

MonthValues == <<"1", "2", "3", "4", "5", "6", "7", "8", "9", "10", "11", "12">>

\* parseInt(selectedMonth)
parseInt(str) == CHOOSE i \in DOMAIN MonthValues : MonthValues[i] = str

\* the date range of a fetch, from the year and month of its closure
DateRange(year, month) ==
    IF month = "all"
    THEN [startDate |-> getStartOfYear(year), endDate |-> getEndOfYear(year)]
    ELSE [startDate |-> getStartOfMonth(year, parseInt(month)),
          endDate   |-> getEndOfMonth(year, parseInt(month))]

\* The chunk queries of one wave: a deposits and a loans query per chunk.
Queries(chunks) == {"deposits", "loans"} \X DOMAIN chunks

\* the queries of a wave that were rejected (a fallback that succeeds
\* follows a rejected indexed query)
Faults(out) == { q \in DOMAIN out : out[q] # "ok" }

\* how the queries of one wave may end, when `used` queries of the
\* invocation were rejected before
WaveOutcomes(chunks, used) ==
    { out \in [Queries(chunks) -> Outcomes] :
        Cardinality(Faults(out)) + used <= MaxFaults }

\* userIdChunks.map(chunk => fetchDepositsForUsers(chunk, startDate, endDate))
\* and the same for loans, each awaited with Promise.all
Wave(chunks, range, out) ==
    [ deposits |-> [ c \in DOMAIN chunks |->
                       fetchDepositsForUsers(chunks[c], range.startDate,
                                             range.endDate,
                                             out[<<"deposits", c>>]) ],
      loans    |-> [ c \in DOMAIN chunks |->
                       fetchLoansForUsers(chunks[c], range.startDate,
                                          range.endDate,
                                          out[<<"loans", c>>]) ] ]

\* setIndexError(prev => ({...prev, <coll>: indexErr.message})) of every
\* query of the wave that was rejected for a missing index
IndexErrorAfter(prev, chunks, out) ==
    LET Hit(coll) == \E c \in DOMAIN chunks :
                         out[<<coll, c>>] \in {"index", "index_error"}
    IN  [ deposits |-> IF Hit("deposits") THEN IndexMessage ELSE prev.deposits,
          loans    |-> IF Hit("loans") THEN IndexMessage ELSE prev.loans ]

\* Object.keys(result).forEach(userId => all = [...all, ...result[userId]])
RECURSIVE ConcatKeys(_, _)
ConcatKeys(result, k) ==
    IF k > Len(result.keys) THEN <<>>
    ELSE result.data[result.keys[k]] \o ConcatKeys(result, k + 1)

\* results.forEach(result => ...): every record of every chunk's mapping
RECURSIVE ConcatResults(_, _)
ConcatResults(results, c) ==
    IF c > Len(results) THEN <<>>
    ELSE ConcatKeys(results[c], 1) \o ConcatResults(results, c + 1)

\* allData[userId] = result[userId], over the results in order
MergeResults(results) ==
    [ u \in UNION { DOMAIN results[c].data : c \in DOMAIN results } |->
        LET last == CHOOSE c \in DOMAIN results :
                        /\ u \in DOMAIN results[c].data
                        /\ \A d \in DOMAIN results :
                               u \in DOMAIN results[d].data => d <= c
        IN  results[last].data[u] ]

\* usersData.forEach(user => reports[user.id] = {user, deposits, loans,
\*                                                ...totals})
ReportEntries(ids, usersData, depositsData, loansData) ==
    [ u \in ids |->
        LET user == usersData[CHOOSE i \in DOMAIN usersData :
                                  /\ usersData[i].id = u
                                  /\ \A j \in DOMAIN usersData :
                                         usersData[j].id = u => j <= i]
            userDeposits == IF u \in DOMAIN depositsData
                            THEN depositsData[u] ELSE <<>>
            userLoans == IF u \in DOMAIN loansData THEN loansData[u] ELSE <<>>
            totals == calculateUserTotals(userDeposits, userLoans)
        IN  [ user             |-> user,
              deposits         |-> userDeposits,
              loans            |-> userLoans,
              totalDeposits    |-> totals.totalDeposits,
              totalLoans       |-> totals.totalLoans,
              paidLoansCount   |-> totals.paidLoansCount,
              unpaidLoansCount |-> totals.unpaidLoansCount ] ]

\* mutant: only the users that have a fetched record get an entry
BuildReportsOfFetched(usersData, depositsData, loansData) ==
    ReportEntries({ usersData[i].id : i \in DOMAIN usersData }
                      \cap (DOMAIN depositsData \cup DOMAIN loansData),
                  usersData, depositsData, loansData)

BuildReports(usersData, depositsData, loansData) ==
    ReportEntries({ usersData[i].id : i \in DOMAIN usersData },
                  usersData, depositsData, loansData)

\* setChartData({labels, datasets: [Deposits, Loans]})
ChartOf(monthlyData) ==
    [ labels   |-> [ m \in DOMAIN monthlyData |-> monthlyData[m].month ],
      deposits |-> [ m \in DOMAIN monthlyData |-> monthlyData[m].deposits ],
      loans    |-> [ m \in DOMAIN monthlyData |-> monthlyData[m].loans ] ]

YearSummary(deposits, loans, monthlyData) ==
    [ totalDeposits |-> SumAmounts(deposits),
      totalLoans    |-> SumAmounts(loans),
      monthlyData   |-> monthlyData ]

NoReports == [ u \in {} |-> <<>> ]

NoOutcome == [ q \in {} |-> "ok" ]

\* a fetchUserReports invocation that has just been called: its closure
\* (selectedYear, selectedMonth) and its local variables, still unset
NewFetch(year, month) ==
    [ pc          |-> "users",
      year        |-> year,
      month       |-> month,
      usersOk     |-> FALSE,
      usersData   |-> <<>>,
      out1        |-> NoOutcome,
      reports     |-> NoReports,
      allDeposits |-> <<>>,
      allLoans    |-> <<>>,
      monthlyData |-> <<>>,
      out2        |-> NoOutcome,
      prevYearDeposits |-> <<>>,
      prevYearLoans    |-> <<>> ]

\* fetchUserReports(): setLoading(true); setError(null); await fetchUsers()
StartFetch(year, month) ==
    /\ Len(fetches) < MaxFetches
    /\ loading' = TRUE
    /\ error' = Null
    /\ fetches' = Append(fetches, NewFetch(year, month))

\* useEffect(() => { fetchUserReports() }, [fetchUserReports]) at mount
Mount ==
    /\ fetches = <<>>
    /\ StartFetch(selectedYear, selectedMonth)
    /\ UNCHANGED <<selectedYear, selectedMonth, users, userReports, chartData,
                   comparisonData, indexError, db, otherVars, aggVars, queryVars>>

\* for (year = currentYear; year >= 2022; year--) options.push(year)
generateYearOptions == FirstYear..CurrentYear

\* the year select: setSelectedYear(parseInt(value)); the effect then calls
\* the new fetchUserReports
ChangeYear(year) ==
    /\ fetches # <<>>
    /\ year \in generateYearOptions
    /\ year # selectedYear
    /\ selectedYear' = year
    /\ StartFetch(year, selectedMonth)
    /\ UNCHANGED <<selectedMonth, users, userReports, chartData,
                   comparisonData, indexError, db, otherVars, aggVars, queryVars>>

MonthOptions == {"all"} \cup { MonthValues[i] : i \in DOMAIN MonthValues }

\* the options of the month select the model's user picks
MonthChoices == {"all", "2", "12"}

\* the month select: setSelectedMonth(value); the effect then calls the new
\* fetchUserReports
ChangeMonth(month) ==
    /\ fetches # <<>>
    /\ month \in MonthOptions
    /\ month # selectedMonth
    /\ selectedMonth' = month
    /\ StartFetch(selectedYear, month)
    /\ UNCHANGED <<selectedYear, users, userReports, chartData,
                   comparisonData, indexError, db, otherVars, aggVars, queryVars>>

\* the Apply Filters button: onClick={fetchUserReports}
ApplyFilters ==
    /\ fetches # <<>>
    /\ StartFetch(selectedYear, selectedMonth)
    /\ UNCHANGED <<selectedYear, selectedMonth, users, userReports, chartData,
                   comparisonData, indexError, db, otherVars, aggVars,
                   queryVars>>

\* fetchUsers() resolves: setUsers(usersData); return usersData.  The chunk
\* queries of the selected range are issued.
UsersLoaded(f) ==
    /\ fetches[f].pc = "users"
    /\ users' = db.users
    /\ fetches' = [fetches EXCEPT ![f].pc = "data", ![f].usersOk = TRUE,
                                  ![f].usersData = db.users]
    /\ UNCHANGED <<selectedYear, selectedMonth, userReports, chartData,
                   comparisonData, loading, error, indexError, db, otherVars, aggVars,
                   queryVars>>

\* fetchUsers() catches: setError('Failed to fetch users data'); return []
UsersFailed(f) ==
    /\ fetches[f].pc = "users"
    /\ error' = "Failed to fetch users data"
    /\ fetches' = [fetches EXCEPT ![f].pc = "data", ![f].usersOk = FALSE,
                                  ![f].usersData = <<>>]
    /\ UNCHANGED <<selectedYear, selectedMonth, users, userReports, chartData,
                   comparisonData, loading, indexError, db, otherVars, aggVars,
                   queryVars>>

UserIdsOf(usersData) == [ i \in DOMAIN usersData |-> usersData[i].id ]

\* Both Promise.all of the selected range have resolved: the results are
\* combined, the reports computed, setChartData called and the queries of
\* the previous year issued.
DataDoneWith(f, out) ==
    LET self == fetches[f]
        chunks == userIdChunks(UserIdsOf(self.usersData))
        wave == Wave(chunks, DateRange(self.year, self.month), out)
        allDeposits == ConcatResults(wave.deposits, 1)
        allLoans == ConcatResults(wave.loans, 1)
        monthlyData == groupDataByMonth(allDeposits, allLoans, self.year)
    IN  /\ indexError' = IndexErrorAfter(indexError, chunks, out)
        /\ chartData' = <<ChartOf(monthlyData)>>
        /\ fetches' =
             [fetches EXCEPT
                ![f].pc = "prev",
                ![f].out1 = out,
                ![f].reports = BuildReports(self.usersData,
                                            MergeResults(wave.deposits),
                                            MergeResults(wave.loans)),
                ![f].allDeposits = allDeposits,
                ![f].allLoans = allLoans,
                ![f].monthlyData = monthlyData]
        /\ UNCHANGED <<selectedYear, selectedMonth, users, userReports,
                       comparisonData, loading, error, db, otherVars, aggVars, queryVars>>

DataDone(f) ==
    /\ fetches[f].pc = "data"
    /\ \E out \in WaveOutcomes(
                    userIdChunks(UserIdsOf(fetches[f].usersData)), 0) :
           DataDoneWith(f, out)

\* The queries of the previous year settle: both Promise.all resolve with
\* the chunks' mappings.
PrevSettledWith(f, out) ==
    LET self == fetches[f]
        chunks == userIdChunks(UserIdsOf(self.usersData))
        range == [startDate |-> getStartOfYear(self.year - 1),
                  endDate   |-> getEndOfYear(self.year - 1)]
        wave == Wave(chunks, range, out)
    IN  /\ indexError' = IndexErrorAfter(indexError, chunks, out)
        /\ fetches' =
             [fetches EXCEPT
                ![f].pc = "settled",
                ![f].out2 = out,
                ![f].prevYearDeposits = ConcatResults(wave.deposits, 1),
                ![f].prevYearLoans = ConcatResults(wave.loans, 1)]
        /\ UNCHANGED <<selectedYear, selectedMonth, users, userReports,
                       chartData, comparisonData, loading, error, db, otherVars, aggVars,
                       queryVars>>

PrevSettled(f) ==
    /\ fetches[f].pc = "prev"
    /\ \E out \in WaveOutcomes(
                    userIdChunks(UserIdsOf(fetches[f].usersData)),
                    Cardinality(Faults(fetches[f].out1))) :
           PrevSettledWith(f, out)

\* a fetchUserReports invocation that has returned
DoneFetch(self) ==
    [ NewFetch(self.year, self.month) EXCEPT !.pc = "done" ]

\* mutant: the returned reports are merged into the store
PrevDoneMerging(f) ==
    LET self == fetches[f]
    IN  /\ self.pc = "settled"
        /\ userReports' = self.reports @@ userReports
        /\ loading' = FALSE
        /\ fetches' = [fetches EXCEPT ![f] = DoneFetch(self)]
        /\ UNCHANGED <<selectedYear, selectedMonth, users, chartData,
                       comparisonData, error, indexError, db, otherVars,
                       aggVars, queryVars>>

\* mutant: only the invocation started last applies its results
PrevDoneLatestOnly(f) ==
    LET self == fetches[f]
    IN  /\ self.pc = "settled"
        /\ userReports' = IF f = Len(fetches) THEN self.reports
                          ELSE userReports
        /\ loading' = FALSE
        /\ fetches' = [fetches EXCEPT ![f] = DoneFetch(self)]
        /\ UNCHANGED <<selectedYear, selectedMonth, users, chartData,
                       comparisonData, error, indexError, db, otherVars, aggVars,
                       queryVars>>

\* fetchUserReports resumes after the previous year's queries:
\* setComparisonData(...); setUserReports(reports); setLoading(false)
PrevDone(f) ==
    LET self == fetches[f]
        prevYearMonthlyData ==
            groupDataByMonth(self.prevYearDeposits, self.prevYearLoans,
                             self.year - 1)
    IN  /\ self.pc = "settled"
        /\ comparisonData' =
             << [ currentYear  |-> YearSummary(self.allDeposits, self.allLoans,
                                               self.monthlyData),
                  previousYear |-> YearSummary(self.prevYearDeposits,
                                               self.prevYearLoans,
                                               prevYearMonthlyData) ] >>
        /\ userReports' = self.reports
        /\ loading' = FALSE
        /\ fetches' = [fetches EXCEPT ![f] = DoneFetch(self)]
        /\ UNCHANGED <<selectedYear, selectedMonth, users, chartData, error,
                       indexError, db, otherVars, aggVars, queryVars>>

----------------------------------------------------------------------------
(* Pagination: PaginatedTable and the users summary table *)

\* const itemsPerPage = 20 (users summary table)
itemsPerPage == 20

\* <PaginatedTable ... itemsPerPage={5} /> (tables of the modal)
ModalItemsPerPage == 5

\* Math.ceil(n / perPage)
Ceil(n, perPage) == (n + perPage - 1) \div perPage

\* data.slice(startIndex, endIndex), for 0 <= startIndex
Slice(data, startIndex, endIndex) ==
    SubSeq(data, startIndex + 1, Min(endIndex, Len(data)))

TotalPages(data, perPage) == Ceil(Len(data), perPage)

\* mutant: the slice stops one element early
CurrentDataShort(data, page, perPage) ==
    LET startIndex == (page - 1) * perPage
        endIndex   == startIndex + perPage - 1
    IN  Slice(data, startIndex, endIndex)

\* startIndex = (currentPage - 1) * itemsPerPage;
\* endIndex = startIndex + itemsPerPage; data.slice(startIndex, endIndex)
CurrentData(data, page, perPage) ==
    LET startIndex == (page - 1) * perPage
        endIndex   == startIndex + perPage
    IN  Slice(data, startIndex, endIndex)

\* one rendering of a paginated sequence
Render(args) ==
    [totalPages  |-> TotalPages(args.data, args.itemsPerPage),
     currentData |-> CurrentData(args.data, args.currentPage,
                                 args.itemsPerPage)]

----------------------------------------------------------------------------
(* The users summary table and the user report modal.  A string is a       *)
(* sequence of one-character strings.                                      *)

\* String.prototype.toLowerCase, on the letters the model uses
LowerOf(c) ==
    CASE c = "A" -> "a" [] c = "B" -> "b" [] c = "N" -> "n" [] OTHER -> c

toLowerCase(str) == [i \in DOMAIN str |-> LowerOf(str[i])]

\* String.prototype.trim
RECURSIVE trimStart(_)
trimStart(str) ==
    IF str # <<>> /\ Head(str) = " " THEN trimStart(Tail(str)) ELSE str

RECURSIVE trimEnd(_)
trimEnd(str) ==
    IF str # <<>> /\ str[Len(str)] = " "
    THEN trimEnd(SubSeq(str, 1, Len(str) - 1)) ELSE str

trim(str) == trimEnd(trimStart(str))

\* String.prototype.includes
includes(str, part) ==
    \E i \in 0..(Len(str) - Len(part)) : SubSeq(str, i + 1, i + Len(part)) = part

\* user.user?.name?.toLowerCase().includes(query)
FieldIncludes(user, field, query) ==
    /\ field \in DOMAIN user
    /\ includes(toLowerCase(user[field]), query)

MatchesSearch(report, query) ==
    \/ FieldIncludes(report.user, "name", query)
    \/ FieldIncludes(report.user, "email", query)
    \/ FieldIncludes(report.user, "phone", query)

filterUsersBySearch(reports, searchQuery) ==
    IF trim(searchQuery) = <<>> THEN reports
    ELSE LET query == toLowerCase(searchQuery)
             Test(report) == MatchesSearch(report, query)
         IN  SelectSeq(reports, Test)

\* Object.values(userReports): the reports in the order of their keys
RECURSIVE ValuesFrom(_, _)
ValuesFrom(reports, keys) ==
    IF keys = {} THEN <<>>
    ELSE LET k == CHOOSE x \in keys : \A y \in keys : x <= y
         IN  <<reports[k]>> \o ValuesFrom(reports, keys \ {k})

ObjectValues(reports) == ValuesFrom(reports, DOMAIN reports)

HasUnpaid(report) == report.unpaidLoansCount > 0

\* const filteredUsers = useMemo(...)
FilteredUsers(reports, searchQuery, unpaidOnly) ==
    IF DOMAIN reports = {} THEN <<>>
    ELSE LET all      == ObjectValues(reports)
             searched == IF searchQuery # <<>>
                         THEN filterUsersBySearch(all, searchQuery)
                         ELSE all
         IN  IF unpaidOnly THEN SelectSeq(searched, HasUnpaid) ELSE searched

filteredUsers ==
    FilteredUsers(userReports, debouncedSearchQuery, showOnlyUnpaid)

totalPages == TotalPages(filteredUsers, itemsPerPage)

currentUsers == CurrentData(filteredUsers, currentPage, itemsPerPage)

\* useEffect(() => setCurrentPage(1), [filteredUsers.length]): the effect
\* runs when the length differs from the one of the previous render
PageAfter(newFiltered) ==
    IF Len(newFiltered) # Len(filteredUsers) THEN 1 ELSE currentPage

\* the table is rendered: loading ? ... : error ? ... :
\* filteredUsers.length === 0 ? ... : <table>
TableShown == ~crashed /\ ~loading /\ error = Null /\ filteredUsers # <<>>

\* the debounce timer fires with the text typed in the search box
SearchSettled(text) ==
    /\ ~crashed
    /\ text # debouncedSearchQuery
    /\ debouncedSearchQuery' = text
    /\ currentPage' =
           PageAfter(FilteredUsers(userReports, text, showOnlyUnpaid))
    /\ UNCHANGED <<showOnlyUnpaid, selectedUser, isModalOpen, modalPages,
                   crashed, userReports, loading, error, outsideView>>

\* onChange={(e) => setShowOnlyUnpaid(e.target.checked)}
ToggleUnpaid ==
    /\ ~crashed
    /\ showOnlyUnpaid' = ~showOnlyUnpaid
    /\ currentPage' =
           PageAfter(FilteredUsers(userReports, debouncedSearchQuery,
                                   ~showOnlyUnpaid))
    /\ UNCHANGED <<debouncedSearchQuery, selectedUser, isModalOpen,
                   modalPages, crashed, userReports, loading, error,
                   outsideView>>

\* summary table: onClick={() => setCurrentPage(prev => Math.max(prev-1, 1))}
PreviousPage ==
    /\ TableShown /\ totalPages > 1
    /\ currentPage # 1                       \* disabled={currentPage === 1}
    /\ currentPage' = IF currentPage - 1 >= 1 THEN currentPage - 1 ELSE 1
    /\ UNCHANGED <<debouncedSearchQuery, showOnlyUnpaid, selectedUser,
                   isModalOpen, modalPages, crashed, userReports, loading,
                   error, outsideView>>

\* summary table: setCurrentPage(prev => Math.min(prev + 1, totalPages))
NextPage ==
    /\ TableShown /\ totalPages > 1
    /\ currentPage # totalPages       \* disabled={currentPage === totalPages}
    /\ currentPage' = Min(currentPage + 1, totalPages)
    /\ UNCHANGED <<debouncedSearchQuery, showOnlyUnpaid, selectedUser,
                   isModalOpen, modalPages, crashed, userReports, loading,
                   error, outsideView>>

\* summary table: onClick={() => setCurrentPage(page)}
GoToPage(page) ==
    /\ TableShown /\ totalPages > 1
    /\ page \in 1..totalPages
    /\ currentPage' = page
    /\ UNCHANGED <<debouncedSearchQuery, showOnlyUnpaid, selectedUser,
                   isModalOpen, modalPages, crashed, userReports, loading,
                   error, outsideView>>

\* the list a PaginatedTable of the modal is given
ModalData(reports, user, coll) ==
    IF coll = "deposits" THEN reports[user].deposits ELSE reports[user].loans

\* deposits.length === 0 ? <p/> : <PaginatedTable/>: the component keeps
\* its currentPage while it stays mounted and starts at useState(1)
MountedPage(prev, data) ==
    IF data = <<>> THEN 0 ELSE IF prev = 0 THEN 1 ELSE prev

NoModalPages == [deposits |-> 0, loans |-> 0]

\* handleViewDetails(report.user.id), from a row of the table
handleViewDetails(userId) ==
    /\ TableShown /\ ~isModalOpen
    /\ \E i \in DOMAIN currentUsers : currentUsers[i].user.id = userId
    /\ selectedUser' = <<userId>>
    /\ isModalOpen' = TRUE
    /\ modalPages' =
           [coll \in {"deposits", "loans"} |->
               MountedPage(0, ModalData(userReports, userId, coll))]
    /\ UNCHANGED <<debouncedSearchQuery, showOnlyUnpaid, currentPage, crashed,
                   userReports, loading, error, outsideView>>

handleCloseModal ==
    /\ ~crashed /\ isModalOpen
    /\ isModalOpen' = FALSE
    /\ selectedUser' = <<>>
    /\ modalPages' = NoModalPages
    /\ UNCHANGED <<debouncedSearchQuery, showOnlyUnpaid, currentPage, crashed,
                   userReports, loading, error, outsideView>>

ModalTotalPages(coll) ==
    TotalPages(ModalData(userReports, selectedUser[1], coll),
               ModalItemsPerPage)

\* PaginatedTable: Previous, Next and page-number buttons
ModalPage(coll, page) ==
    /\ ~crashed /\ isModalOpen /\ modalPages[coll] # 0
    /\ ModalTotalPages(coll) > 1
    /\ modalPages' = [modalPages EXCEPT ![coll] = page]
    /\ UNCHANGED <<debouncedSearchQuery, showOnlyUnpaid, currentPage,
                   selectedUser, isModalOpen, crashed, userReports, loading,
                   error, outsideView>>

ModalPreviousPage(coll) ==
    /\ modalPages[coll] # 1
    /\ ModalPage(coll, IF modalPages[coll] - 1 >= 1
                       THEN modalPages[coll] - 1 ELSE 1)

ModalNextPage(coll) ==
    /\ ~crashed /\ isModalOpen /\ modalPages[coll] # 0
    /\ modalPages[coll] # ModalTotalPages(coll)
    /\ ModalPage(coll, Min(modalPages[coll] + 1, ModalTotalPages(coll)))

ModalGoToPage(coll, page) ==
    /\ ~crashed /\ isModalOpen /\ modalPages[coll] # 0
    /\ page \in 1..ModalTotalPages(coll)
    /\ ModalPage(coll, page)

\* fetchUserReports starts: setLoading(true); setError(null)
ReloadStarted ==
    /\ ~crashed /\ ~loading
    /\ loading' = TRUE
    /\ error' = Null
    /\ UNCHANGED <<viewVars, userReports, outsideView>>

\* what the next render does with the new report store: the reset effect of
\* the table; the modal reads userReports[selectedUser], which throws when
\* the store has no entry for the selected user
RenderWith(reports) ==
    IF selectedUser # <<>> /\ selectedUser[1] \notin DOMAIN reports
    THEN /\ crashed' = TRUE
         /\ UNCHANGED <<currentPage, modalPages>>
    ELSE /\ crashed' = FALSE
         /\ currentPage' =
                PageAfter(FilteredUsers(reports, debouncedSearchQuery,
                                        showOnlyUnpaid))
         /\ modalPages' =
                IF selectedUser = <<>> THEN NoModalPages
                ELSE [coll \in {"deposits", "loans"} |->
                         MountedPage(modalPages[coll],
                                     ModalData(reports, selectedUser[1], coll))]

\* a fetchUserReports invocation returns with the reports it computed:
\* setUserReports(reports); setLoading(false)
ReportsLoaded(reports) ==
    /\ ~crashed
    /\ userReports' = reports
    /\ loading' = FALSE
    /\ RenderWith(reports)
    /\ UNCHANGED <<debouncedSearchQuery, showOnlyUnpaid, selectedUser,
                   isModalOpen, error, outsideView>>

\* an invocation whose fetchUsers failed returns: setError('Failed to fetch
\* users data') ... setUserReports({}); setLoading(false)
ReportsFailed ==
    /\ ~crashed
    /\ userReports' = NoReports
    /\ loading' = FALSE
    /\ error' = "Failed to fetch users data"
    /\ RenderWith(NoReports)
    /\ UNCHANGED <<debouncedSearchQuery, showOnlyUnpaid, selectedUser,
                   isModalOpen, outsideView>>

----------------------------------------------------------------------------
(* exportToPDF (src/src/exportToPDF.js).  A step of the generation either  *)
(* completes or raises; a raised exception is [thrown |-> message].        *)

Has(obj, field) == field \in DOMAIN obj

\* the statements before the try block: new jsPDF({orientation: 'portrait',
\* unit: 'mm', format: 'a4'}), doc.internal.pageSize.getWidth()/getHeight(),
\* doc.setFont('helvetica').  They read neither userReports nor year, and
\* with these literal arguments the library calls complete.
SetupRaises == FALSE

\* addTitlePage: userReports.length, userReports.reduce(...)
TitlePageRaises(reports) == reports = <<>>

\* a row of addSummaryTable: report.user.name, formatCurrency(report.total..)
SummaryRowRaises(report) ==
    \/ ~Has(report, "user")
    \/ ~Has(report, "totalDeposits")      \* undefined.toFixed
    \/ ~Has(report, "totalLoans")

\* addUserDetails: userReport.deposits.length, userReport.user.name,
\* formatCurrency(deposit.amount), formatCurrency(loan.amount)
UserDetailsRaises(report) ==
    \/ ~Has(report, "deposits")
    \/ ~Has(report, "loans")
    \/ ~Has(report, "user")
    \/ \E i \in DOMAIN report.deposits : ~Has(report.deposits[i], "amount")
    \/ \E i \in DOMAIN report.loans : ~Has(report.loans[i], "amount")

\* `annual-reports-${year}.pdf`
PdfFilename(year) == <<"annual-reports-", year, ".pdf">>

\* the body of the try block: what it returns, or what it throws
GeneratePdf(reports, year, save) ==
    IF TitlePageRaises(reports)
        THEN [thrown |-> "title page"]
    ELSE IF \E i \in DOMAIN reports[1] : SummaryRowRaises(reports[1][i])
        THEN [thrown |-> "summary table"]
    ELSE IF \E i \in DOMAIN reports[1] : UserDetailsRaises(reports[1][i])
        THEN [thrown |-> "user details"]
    ELSE IF save # "ok"
        THEN [thrown |-> "save"]
    ELSE [success |-> TRUE, filename |-> PdfFilename(year)]

\* mutant: the exception of the generation is not caught
exportToPDFUncaught(reports, year, save) ==
    LET result == GeneratePdf(reports, year, save)
    IN  IF Has(result, "thrown") THEN [kind |-> "thrown"]
        ELSE [kind |-> "returned", value |-> result]

\* try { ... return {success: true, filename} }
\* catch (error) { return {success: false, error: error.message} }
exportToPDF(reports, year, save) ==
    LET result == GeneratePdf(reports, year, save)
    IN  IF SetupRaises THEN [kind |-> "thrown"]
        ELSE IF Has(result, "thrown")
        THEN [kind  |-> "returned",
              value |-> [success |-> FALSE, error |-> result.thrown]]
        ELSE [kind |-> "returned", value |-> result]

----------------------------------------------------------------------------
(* The interest settings page (AdminInterestSettings).  Texts are          *)
(* sequences of characters; a number is [nan, neg, m, d], standing for     *)
(* NaN when nan holds and else for the decimal (-1)^neg * m / 10^d.        *)

DigitChar == <<"0", "1", "2", "3", "4", "5", "6", "7", "8", "9">>

Digits == { DigitChar[i] : i \in DOMAIN DigitChar }

DigitVal(c) == (CHOOSE i \in DOMAIN DigitChar : DigitChar[i] = c) - 1

AllDigits(str) == \A i \in DOMAIN str : str[i] \in Digits

RECURSIVE DigitsValue(_)
DigitsValue(str) ==
    IF str = <<>> THEN 0
    ELSE DigitsValue(SubSeq(str, 1, Len(str) - 1)) * 10
         + DigitVal(str[Len(str)])

RECURSIVE Pow10(_)
Pow10(k) == IF k <= 0 THEN 1 ELSE 10 * Pow10(k - 1)

RECURSIVE DigitsOf(_)
DigitsOf(n) ==
    IF n < 10 THEN <<DigitChar[n + 1]>>
    ELSE DigitsOf(n \div 10) \o <<DigitChar[(n % 10) + 1]>>

NaN == [nan |-> TRUE, neg |-> FALSE, m |-> 0, d |-> 0]

\* index of the first "." of str, 0 when there is none
FirstDot(str) ==
    IF \E i \in DOMAIN str : str[i] = "."
    THEN CHOOSE i \in DOMAIN str :
             str[i] = "." /\ \A j \in 1..(i - 1) : str[j] # "."
    ELSE 0

IntegerPart(str) ==
    IF FirstDot(str) = 0 THEN str ELSE SubSeq(str, 1, FirstDot(str) - 1)

FractionPart(str) ==
    IF FirstDot(str) = 0 THEN <<>>
    ELSE SubSeq(str, FirstDot(str) + 1, Len(str))

\* StrUnsignedDecimalLiteral of the language, without exponent part:
\* digits, digits "." digits-opt, or "." digits
IsUnsignedDecimal(str) ==
    /\ AllDigits(IntegerPart(str))
    /\ AllDigits(FractionPart(str))
    /\ IntegerPart(str) # <<>> \/ FractionPart(str) # <<>>

\* StrDecimalLiteral: an optional sign and an unsigned literal
IsStrDecimal(str) ==
    /\ str # <<>>
    /\ IF Head(str) \in {"+", "-"} THEN IsUnsignedDecimal(Tail(str))
       ELSE IsUnsignedDecimal(str)

\* one number has one representation: no trailing zero in the fraction
RECURSIVE Canonical(_, _, _)
Canonical(neg, m, d) ==
    IF d > 0 /\ m % 10 = 0 THEN Canonical(neg, m \div 10, d - 1)
    ELSE [nan |-> FALSE, neg |-> neg, m |-> m, d |-> d]

\* the mathematical value of a StrDecimalLiteral
DecimalValue(str) ==
    LET neg  == Head(str) = "-"
        body == IF Head(str) \in {"+", "-"} THEN Tail(str) ELSE str
    IN  Canonical(neg,
                  DigitsValue(IntegerPart(body) \o FractionPart(body)),
                  Len(FractionPart(body)))

\* Number(str), the conversion isNaN applies to its argument: white space
\* is stripped at both ends, the empty text is 0, anything that is not a
\* numeric literal as a whole is NaN
ToNumber(str) ==
    LET t == trim(str)
    IN  IF t = <<>> THEN [nan |-> FALSE, neg |-> FALSE, m |-> 0, d |-> 0]
        ELSE IF IsStrDecimal(t) THEN DecimalValue(t)
        ELSE NaN

isNaN(str) == ToNumber(str).nan

\* parseFloat(str): leading white space is skipped and the longest prefix
\* that is a numeric literal is converted; NaN when there is none
parseFloat(str) ==
    LET t  == trimStart(str)
        ok == { i \in 1..Len(t) : IsStrDecimal(SubSeq(t, 1, i)) }
    IN  IF ok = {} THEN NaN
        ELSE DecimalValue(SubSeq(t, 1,
                 CHOOSE i \in ok : \A j \in ok : j <= i))

\* interestValue < 0 and interestValue > 100 (false for NaN)
LessThanZero(v) == ~v.nan /\ v.neg /\ v.m > 0

\* mutant: the upper limit is 1000
GreaterThan1000(v) == ~v.nan /\ ~v.neg /\ v.m > 1000 * Pow10(v.d)

GreaterThan100(v) == ~v.nan /\ ~v.neg /\ v.m > 100 * Pow10(v.d)

\* Number.prototype.toFixed(2): the magnitude rounded to hundredths (the
\* larger one of two nearest), two fraction digits always written
toFixed2(v) ==
    IF v.nan THEN <<"N", "a", "N">>
    ELSE LET n == IF v.d <= 2 THEN v.m * Pow10(2 - v.d)
                  ELSE (2 * v.m + Pow10(v.d - 2)) \div (2 * Pow10(v.d - 2))
         IN  (IF v.neg /\ v.m > 0 THEN <<"-">> ELSE <<>>)
             \o DigitsOf(n \div 100)
             \o <<".", DigitChar[((n \div 10) % 10) + 1],
                  DigitChar[(n % 10) + 1]>>

\* <input type="number">: the value handed to onChange is the text when it
\* is a valid floating-point number (an optional "-", then digits, or
\* digits "." digits, or "." digits) and the empty text otherwise
IsValidFloat(str) ==
    LET body == IF str # <<>> /\ Head(str) = "-" THEN Tail(str) ELSE str
    IN  /\ body # <<>>
        /\ AllDigits(IntegerPart(body))
        /\ AllDigits(FractionPart(body))
        /\ IF FirstDot(body) = 0 THEN IntegerPart(body) # <<>>
           ELSE FractionPart(body) # <<>>

NumberInputValue(text) == IF IsValidFloat(text) THEN text ELSE <<>>

\* query(collection(db, "interest"), orderBy("timestamp", "desc"), limit(10))
HistoryLimit == 10

InterestQuery(docs) ==
    SubSeq(SortDesc(docs), 1, Min(HistoryLimit, Len(docs)))

Reverse(seq) == [i \in DOMAIN seq |-> seq[Len(seq) + 1 - i]]

\* snap.docs.map(doc => ({date, rate: parseFloat(doc.data().interest)}))
\* .reverse(): the rates, oldest first (parseFloat of a number is the
\* number; the date label is left out)
History(docs) ==
    Reverse([i \in DOMAIN InterestQuery(docs) |->
                 [rate |-> InterestQuery(docs)[i].interest]])

\* new Date(): an instant later than every stored timestamp
Now(docs) ==
    IF docs = <<>> THEN 1
    ELSE 1 + (CHOOSE t \in { docs[i].timestamp : i \in DOMAIN docs } :
                  \A i \in DOMAIN docs : docs[i].timestamp <= t)

\* doc(collection(db, "interest")): a document reference with a fresh id
NewDocId(docs) == Len(docs) + 1

DefaultInterest == <<"1", "0", ".", "0", "0">>

NoSaveCall == [pc |-> "none"]

\* the useState initial values, with the text shown in the input box
InterestPageInit ==
    [typed         |-> DefaultInterest,
     interest      |-> DefaultInterest,
     loading       |-> TRUE,
     saving        |-> FALSE,
     message       |-> <<>>,
     messageType   |-> "success",
     historyData   |-> <<>>,
     interestDocId |-> <<>>]

\* fetchInterest, from the effect that runs once after mounting: the
\* getDocs call settles, with the documents or with an error
fetchInterest(ok) ==
    /\ route = "interest"
    /\ interestPage.loading
    /\ LET snap == InterestQuery(interestDocs)
       IN  interestPage' =
             IF ~ok
             THEN [interestPage EXCEPT
                     !.message = <<"error_fetch_interest_rate">>,
                     !.messageType = "error",
                     !.loading = FALSE]
             ELSE IF snap # <<>>
             THEN [interestPage EXCEPT
                     !.typed = NumberInputValue(toFixed2(snap[1].interest)),
                     !.interest = toFixed2(snap[1].interest),
                     !.interestDocId = <<snap[1].id>>,
                     !.historyData = History(interestDocs),
                     !.loading = FALSE]
             ELSE [interestPage EXCEPT
                     !.typed = DefaultInterest,
                     !.interest = DefaultInterest,
                     !.loading = FALSE]
    /\ UNCHANGED <<outsideAdmin, otherSession, route, interestDocs, saveCall, docStatus, depositsPage,
                   loansPage, calls>>

\* onChange={(e) => setInterest(e.target.value)}: the admin edits the text
\* of the number input
onChange(text) ==
    /\ route = "interest"
    /\ ~interestPage.loading
    /\ interestPage' = [interestPage EXCEPT
                          !.typed = text,
                          !.interest = NumberInputValue(text)]
    /\ UNCHANGED <<outsideAdmin, otherSession, route, interestDocs, saveCall, docStatus, depositsPage,
                   loansPage, calls>>

\* if (!interest || isNaN(interest))
RejectsInput(interest) == interest = <<>> \/ isNaN(interest)

\* if (interestValue < 0 || interestValue > 100) throw
OutOfRange(v) == LessThanZero(v) \/ GreaterThan100(v)

\* handleSave up to its first await (the button is disabled while saving):
\* the validation, then setSaving(true) and either the range error, caught
\* and followed by the finally block, or the write handed to the backend
handleSave ==
    /\ route = "interest"
    /\ ~interestPage.loading
    /\ ~interestPage.saving
    /\ Now(interestDocs) <= MaxClock
    /\ LET interest      == interestPage.interest
           interestValue == parseFloat(interest)
       IN  IF RejectsInput(interest)
           THEN /\ interestPage' =
                      [interestPage EXCEPT
                         !.message = <<"error_invalid_interest_rate">>,
                         !.messageType = "error"]
                /\ UNCHANGED saveCall
           ELSE IF OutOfRange(interestValue)
           THEN /\ interestPage' =
                      [interestPage EXCEPT
                         !.message = <<"error_save_interest_rate",
                                       "error_interest_rate_range">>,
                         !.messageType = "error",
                         !.saving = FALSE]
                /\ UNCHANGED saveCall
           ELSE /\ interestPage' = [interestPage EXCEPT !.saving = TRUE]
                /\ saveCall' =
                      [pc           |-> "write",
                       interestData |->
                           [interest  |-> interestValue,
                            timestamp |-> Now(interestDocs)],
                       docId        |-> interestPage.interestDocId,
                       newDocId     |-> NewDocId(interestDocs)]
    /\ UNCHANGED <<outsideAdmin, otherSession, route, interestDocs, docStatus, depositsPage, loansPage,
                   calls>>

\* updateDoc(doc(db, "interest", id), data): the fields of data replace
\* those of the stored document
updateDoc(docs, id, data) ==
    [i \in DOMAIN docs |->
        IF docs[i].id = id
        THEN [id |-> id, interest |-> data.interest,
              timestamp |-> data.timestamp]
        ELSE docs[i]]

\* setDoc(newDocRef, data): a new document
setDoc(docs, id, data) ==
    Append(docs, [id |-> id, interest |-> data.interest,
                  timestamp |-> data.timestamp])

SaveFailed(page, reason) ==
    [page EXCEPT !.message = <<"error_save_interest_rate", reason>>,
                 !.messageType = "error",
                 !.saving = FALSE]

\* the awaited updateDoc / setDoc settles: on success the document is
\* stored and the history query is issued; on failure the catch block and
\* the finally block run
WriteSettles(ok) ==
    /\ route = "interest"
    /\ saveCall.pc = "write"
    /\ IF ok
       THEN /\ interestDocs' =
                  IF saveCall.docId # <<>>
                  THEN updateDoc(interestDocs, saveCall.docId[1],
                                 saveCall.interestData)
                  ELSE setDoc(interestDocs, saveCall.newDocId,
                              saveCall.interestData)
            /\ interestPage' =
                  [interestPage EXCEPT
                     !.interestDocId =
                         IF saveCall.docId # <<>> THEN @
                         ELSE <<saveCall.newDocId>>,
                     !.message = <<"success_interest_rate_saved">>,
                     !.messageType = "success"]
            /\ saveCall' = [saveCall EXCEPT !.pc = "refresh"]
       ELSE /\ interestPage' = SaveFailed(interestPage, "backend")
            /\ saveCall' = NoSaveCall
            /\ UNCHANGED interestDocs
    /\ UNCHANGED <<outsideAdmin, otherSession, route, docStatus, depositsPage, loansPage, calls>>

\* the awaited getDocs of the history refresh settles, then finally
RefreshSettles(ok) ==
    /\ route = "interest"
    /\ saveCall.pc = "refresh"
    /\ interestPage' =
          IF ok
          THEN [interestPage EXCEPT
                  !.historyData = History(interestDocs),
                  !.saving = FALSE]
          ELSE SaveFailed(interestPage, "backend")
    /\ saveCall' = NoSaveCall
    /\ UNCHANGED <<outsideAdmin, otherSession, route, interestDocs, docStatus, depositsPage, loansPage,
                   calls>>

----------------------------------------------------------------------------
(* The deposits page and the loans page: approve / deny handlers.  A state *)
(* object such as processing is a function from the keys it has.           *)

\* {...prev, [key]: value}
Put(obj, key, value) ==
    [k \in DOMAIN obj \cup {key} |-> IF k = key THEN value ELSE obj[k]]

\* const copy = {...prev}; delete copy[key]
Delete(obj, key) == [k \in DOMAIN obj \ {key} |-> obj[k]]

\* obj[key] in a condition: undefined and false are falsy
Truthy(obj, key) == key \in DOMAIN obj /\ obj[key] = TRUE

EmptyObject == [k \in {} |-> TRUE]

ItemIds == 1..MaxItems

NoCalls == {}

AllPending ==
    [deposits   |-> [id \in ItemIds |-> "pending"],
     loans      |-> [id \in ItemIds |-> "pending"],
     receiptUrl |-> [id \in ItemIds |-> <<>>]]

\* the first snapshot of a listener has arrived
SnapshotOf(stored) == [deposits |-> stored.deposits, loans |-> stored.loans]

ModerationPageInit ==
    [deposits |-> AllPending.deposits, processing |-> EmptyObject,
     error |-> <<>>]

LoansPageInit ==
    [loans |-> AllPending.loans, processing |-> EmptyObject,
     receiptFiles |-> EmptyObject, error |-> <<>>]

\* onSnapshot of the deposits query delivers the current documents:
\* setDeposits(data)
DepositsSnapshot ==
    /\ route = "deposits"
    /\ depositsPage.deposits # docStatus.deposits
    /\ depositsPage' = [depositsPage EXCEPT !.deposits = docStatus.deposits]
    /\ UNCHANGED <<outsideAdmin, otherSession, route, interestDocs,
                   interestPage, saveCall, docStatus, loansPage, calls>>

\* onSnapshot of the loans query delivers the current documents
LoansSnapshot ==
    /\ route = "loans"
    /\ loansPage.loans # docStatus.loans
    /\ loansPage' = [loansPage EXCEPT !.loans = docStatus.loans]
    /\ UNCHANGED <<outsideAdmin, otherSession, route, interestDocs,
                   interestPage, saveCall, docStatus, depositsPage, calls>>

\* the listeners of the second session deliver the current documents
OtherSessionSnapshot ==
    /\ route \in {"deposits", "loans"}
    /\ otherSession # SnapshotOf(docStatus)
    /\ otherSession' = SnapshotOf(docStatus)
    /\ UNCHANGED <<outsideAdmin, route, interestDocs, interestPage, saveCall,
                   docStatus, depositsPage, loansPage, calls>>

\* handleApproveDeny / denyLoan in the second session, on a record its
\* snapshot shows as pending, with an updateDoc that succeeds
OtherSessionActs(coll, id, newStatus) ==
    /\ route = coll
    /\ otherSession[coll][id] = "pending"
    /\ docStatus' = [docStatus EXCEPT ![coll][id] = newStatus]
    /\ otherSession' = [otherSession EXCEPT ![coll][id] = newStatus]
    /\ UNCHANGED <<outsideAdmin, route, interestDocs, interestPage, saveCall,
                   depositsPage, loansPage, calls>>

\* DepositsPage handleApproveDeny(depositId, newStatus) up to its await:
\* the buttons are rendered for a pending deposit and disabled while
\* processing[deposit.id]
handleApproveDeny(depositId, newStatus) ==
    /\ route = "deposits"
    /\ depositsPage.deposits[depositId] = "pending"
    /\ ~Truthy(depositsPage.processing, depositId)
    /\ depositsPage' =
          [depositsPage EXCEPT !.processing = Put(@, depositId, TRUE)]
    /\ calls' = calls \cup {[page |-> "deposits", id |-> depositId,
                             status |-> newStatus, stage |-> "update",
                                     receiptUrl |-> <<>>]}
    /\ UNCHANGED <<outsideAdmin, otherSession, route, interestDocs, interestPage, saveCall, docStatus,
                   loansPage>>

\* the awaited updateDoc of handleApproveDeny settles: try or catch, then
\* finally
DepositUpdateSettles(call, ok) ==
    /\ call \in calls
    /\ call.page = "deposits"
    /\ docStatus' =
          IF ok THEN [docStatus EXCEPT !.deposits[call.id] = call.status]
          ELSE docStatus
    /\ depositsPage' =
          [depositsPage EXCEPT
             !.deposits = IF ok THEN [@ EXCEPT ![call.id] = call.status]
                          ELSE @,
             !.error = IF ok THEN @ ELSE <<"error_update_deposit_status">>,
             !.processing = Put(@, call.id, FALSE)]
    /\ calls' = calls \ {call}
    /\ UNCHANGED <<outsideAdmin, otherSession, route, interestDocs, interestPage, saveCall, loansPage>>

\* handleReceiptFileChange(loanId, event) with a file chosen
handleReceiptFileChange(loanId) ==
    /\ route = "loans"
    /\ loansPage.loans[loanId] = "pending"
    /\ loansPage' =
          [loansPage EXCEPT !.receiptFiles = Put(@, loanId, TRUE)]
    /\ UNCHANGED <<outsideAdmin, otherSession, route, interestDocs, interestPage, saveCall, docStatus,
                   depositsPage, calls>>

\* acceptLoanWithReceipt(loanId) up to its first await; the Accept button
\* is disabled while processing[loan.id] or without a receipt file, and
\* confirmed is the answer to window.confirm
acceptLoanWithReceipt(loanId, confirmed) ==
    /\ route = "loans"
    /\ loansPage.loans[loanId] = "pending"
    /\ ~Truthy(loansPage.processing, loanId)
    /\ Truthy(loansPage.receiptFiles, loanId)
    /\ IF ~confirmed \/ ~Truthy(loansPage.receiptFiles, loanId)
       THEN UNCHANGED <<loansPage, calls>>
       ELSE /\ loansPage' =
                  [loansPage EXCEPT !.processing = Put(@, loanId, TRUE)]
            /\ calls' = calls \cup {[page |-> "loans", id |-> loanId,
                                     status |-> "accepted",
                                     stage |-> "upload",
                                     receiptUrl |-> <<>>]}
    /\ UNCHANGED <<outsideAdmin, otherSession, route, interestDocs, interestPage, saveCall, docStatus,
                   depositsPage>>

\* denyLoan(loanId) up to its await
denyLoan(loanId, confirmed) ==
    /\ route = "loans"
    /\ loansPage.loans[loanId] = "pending"
    /\ ~Truthy(loansPage.processing, loanId)
    /\ IF ~confirmed
       THEN UNCHANGED <<loansPage, calls>>
       ELSE /\ loansPage' =
                  [loansPage EXCEPT !.processing = Put(@, loanId, TRUE)]
            /\ calls' = calls \cup {[page |-> "loans", id |-> loanId,
                                     status |-> "denied",
                                     stage |-> "update",
                                     receiptUrl |-> <<>>]}
    /\ UNCHANGED <<outsideAdmin, otherSession, route, interestDocs, interestPage, saveCall, docStatus,
                   depositsPage>>

\* mutant: the catch block without the finally block
LoanFailedFlagKept(page, call) ==
    [page EXCEPT
       !.error = IF call.status = "accepted"
                 THEN <<"Failed to accept loan: ">>
                 ELSE <<"Failed to deny loan: ">>]

\* mutant: the receipt file cleared whether or not the update succeeded
LoanFailedFileCleared(page, call) ==
    [page EXCEPT
       !.error = IF call.status = "accepted"
                 THEN <<"Failed to accept loan: ">>
                 ELSE <<"Failed to deny loan: ">>,
       !.receiptFiles = Delete(@, call.id),
       !.processing = Delete(@, call.id)]

\* the catch block and the finally block of the two loan handlers
LoanFailed(page, call) ==
    [page EXCEPT
       !.error = IF call.status = "accepted"
                 THEN <<"Failed to accept loan: ">>
                 ELSE <<"Failed to deny loan: ">>,
       !.processing = Delete(@, call.id)]

\* what uploadToCloudinary returns when its fetch and res.json() succeed
\* with the file stored: json.secure_url
uploadToCloudinary == <<"secure_url">>

\* the awaited uploadToCloudinary of acceptLoanWithReceipt settles: on
\* success updateDoc is issued, on failure catch and finally run.  A
\* failure is a rejected fetch or res.json(), or a response without
\* secure_url, whose undefined receiptUrl makes updateDoc throw.
UploadSettles(call, ok) ==
    /\ call \in calls
    /\ call.page = "loans"
    /\ call.stage = "upload"
    /\ IF ok
       THEN /\ calls' = (calls \ {call})
                        \cup {[call EXCEPT !.stage = "update",
                                           !.receiptUrl = uploadToCloudinary]}
            /\ UNCHANGED loansPage
       ELSE /\ calls' = calls \ {call}
            /\ loansPage' = LoanFailed(loansPage, call)
    /\ UNCHANGED <<outsideAdmin, otherSession, route, interestDocs, interestPage, saveCall, docStatus,
                   depositsPage>>

\* the awaited updateDoc of acceptLoanWithReceipt / denyLoan settles
LoanUpdateSettles(call, ok) ==
    /\ call \in calls
    /\ call.page = "loans"
    /\ call.stage = "update"
    /\ docStatus' =
          IF ~ok THEN docStatus
          ELSE [docStatus EXCEPT
                  !.loans[call.id] = call.status,
                  !.receiptUrl[call.id] = IF call.status = "accepted"
                                          THEN call.receiptUrl ELSE @]
    /\ loansPage' =
          IF ~ok THEN LoanFailed(loansPage, call)
          ELSE [loansPage EXCEPT
                  !.loans = [@ EXCEPT ![call.id] = call.status],
                  !.receiptFiles = IF call.status = "accepted"
                                   THEN Delete(@, call.id) ELSE @,
                  !.processing = Delete(@, call.id)]
    /\ calls' = calls \ {call}
    /\ UNCHANGED <<outsideAdmin, otherSession, route, interestDocs, interestPage, saveCall,
                   depositsPage>>

----------------------------------------------------------------------------
(* The blocked-user check (utils/userBlocking.js, BlockedUserChecker).     *)
(* A field value is a text naming its type and value: "bool:true" is the   *)
(* boolean true, "str:true" the string 'true'.                             *)

FieldValues == {"bool:true", "bool:false", "str:true", "num:1", "undefined"}

\* !currentStatus
Not(value) ==
    IF value \in {"bool:false", "undefined"} THEN "bool:true"
    ELSE "bool:false"

NoReturn == [user |-> <<>>, read |-> "not called", value |-> FALSE]

\* checkUserBlockStatus up to its await: auth.currentUser is read; without
\* a user false is returned, else getDoc is issued.  checks is the list
\* of invocations awaiting the backend.
checkUserBlockStatus ==
    IF authUser = <<>>
    THEN /\ lastReturn' = [user |-> <<>>, read |-> "none", value |-> FALSE]
         /\ UNCHANGED checks
    ELSE /\ checks' = Append(checks, [pc |-> "getDoc", uid |-> authUser[1]])
         /\ UNCHANGED lastReturn

\* checkUserStatus of BlockedUserChecker: if (currentUser) await
\* checkAndHandleUserBlockStatus(navigate)
checkUserStatus ==
    IF ctxUser # <<>> THEN checkUserBlockStatus
    ELSE UNCHANGED <<checks, lastReturn>>

\* the effect of BlockedUserChecker runs after mounting: checkUserStatus()
\* and setInterval(checkUserStatus, 60000)
MountChecker ==
    /\ ~intervalSet
    /\ intervalSet' = TRUE
    /\ checkUserStatus
    /\ UNCHANGED <<outsideBlock, authUser, ctxUser, userDoc, location>>

\* the interval fires
IntervalFires ==
    /\ intervalSet
    /\ Len(checks) < MaxInFlight
    /\ checkUserStatus
    /\ UNCHANGED <<outsideBlock, authUser, ctxUser, userDoc, location,
                   intervalSet>>

RemoveAt(seq, i) == SubSeq(seq, 1, i - 1) \o SubSeq(seq, i + 1, Len(seq))

\* mutant: the field is tested for truthiness
IsBlockedDocTruthy(snap) ==
    snap.exists /\ snap.isBlocked \notin {"bool:false", "undefined"}

\* userDocSnap.exists() && userDocSnap.data().isBlocked === true
IsBlockedDoc(snap) == snap.exists /\ snap.isBlocked = "bool:true"

\* the awaited getDoc of checkUserBlockStatus settles and the function
\* returns; checkAndHandleUserBlockStatus then calls handleBlockedUser,
\* which issues signOut(auth), when the value is true
GetDocSettles(i, ok) ==
    /\ i \in DOMAIN checks
    /\ checks[i].pc = "getDoc"
    /\ LET isBlocked == IF ok THEN IsBlockedDoc(userDoc) ELSE FALSE
       IN  /\ lastReturn' = [user  |-> <<checks[i].uid>>,
                             read  |-> IF ~ok THEN "failed"
                                       ELSE IF userDoc.exists
                                       THEN userDoc.isBlocked
                                       ELSE "missing",
                             value |-> isBlocked]
           /\ checks' = IF isBlocked
                        THEN [checks EXCEPT ![i].pc = "signOut"]
                        ELSE RemoveAt(checks, i)
    /\ UNCHANGED <<outsideBlock, authUser, ctxUser, userDoc, location,
                   intervalSet>>

\* mutant: navigate('/blocked') also after a failed signOut
SignOutSettlesAlwaysNavigating(i, ok) ==
    /\ i \in DOMAIN checks
    /\ checks[i].pc = "signOut"
    /\ authUser' = IF ok THEN <<>> ELSE authUser
    /\ location' = "/blocked"
    /\ checks' = RemoveAt(checks, i)
    /\ UNCHANGED <<outsideBlock, ctxUser, userDoc, intervalSet, lastReturn>>

\* the awaited signOut of handleBlockedUser settles: on success nobody is
\* signed in and navigate('/blocked') is called, on failure the catch
\* block logs
SignOutSettles(i, ok) ==
    /\ i \in DOMAIN checks
    /\ checks[i].pc = "signOut"
    /\ authUser' = IF ok THEN <<>> ELSE authUser
    /\ location' = IF ok THEN "/blocked" ELSE location
    /\ checks' = RemoveAt(checks, i)
    /\ UNCHANGED <<outsideBlock, ctxUser, userDoc, intervalSet, lastReturn>>

\* the auth context learns of the change of the signed-in user; the
\* effect of BlockedUserChecker re-runs with the new currentUser
AuthStateChanged ==
    /\ ctxUser # authUser
    /\ ctxUser' = authUser
    /\ IF authUser # <<>> /\ Len(checks) < MaxInFlight
       THEN checkUserBlockStatus
       ELSE UNCHANGED <<checks, lastReturn>>
    /\ UNCHANGED <<outsideBlock, authUser, userDoc, location, intervalSet>>

\* AdminUsers toggleUserBlockStatus(userId, currentStatus) with a write
\* that succeeds: isBlocked: !currentStatus
toggleUserBlockStatus ==
    /\ userDoc.exists
    /\ userDoc' = [userDoc EXCEPT !.isBlocked = Not(@)]
    /\ UNCHANGED <<outsideBlock, authUser, ctxUser, location, intervalSet,
                   checks, lastReturn>>

\* Blocked page: handleGoHome
handleGoHome ==
    /\ location = "/blocked"
    /\ location' = "/"
    /\ UNCHANGED <<outsideBlock, authUser, ctxUser, userDoc, intervalSet,
                   checks, lastReturn>>

----------------------------------------------------------------------------
(* The views that listen in real time: DepositsPage, the loans page and    *)
(* ChatBox.  An effect that calls onSnapshot returns the unsubscribe        *)
(* function; React calls it before the effect runs again and at unmount.    *)

\* the effects that register a listener, named by the collection queried
Effects == {"users", "deposits", "loans", "messages"}

NoCleanups == [e \in Effects |-> <<>>]

ScreenIdle ==
    [name |-> "none", mounted |-> FALSE, currentUser |-> <<>>,
     usersLoaded |-> FALSE, cleanups |-> NoCleanups]

\* useState(''), useState(null) of ChatBox; alerted: an alert was shown
FormInit == [newMessage |-> <<>>, selectedImage |-> <<>>, alerted |-> FALSE]

PresenceInit == [isOnline |-> FALSE, heartbeat |-> FALSE, writes |-> <<>>]

\* the listeners and the cleanups as an effect run finds them
Registry == [active |-> listeners, cleanups |-> screen.cleanups]

FreeIds(reg) ==
    (1..MaxSubs)
      \ ({ l.id : l \in reg.active }
         \cup { reg.cleanups[e][1] :
                  e \in { x \in Effects : reg.cleanups[x] # <<>> } })

\* const unsub = onSnapshot(q, ...); return () => unsub()
onSnapshot(reg, effect, q) ==
    LET id == CHOOSE i \in FreeIds(reg) : \A j \in FreeIds(reg) : i <= j
    IN  [active   |-> reg.active \cup {[id |-> id, query |-> q]},
         cleanups |-> [reg.cleanups EXCEPT ![effect] = <<id>>]]

\* mutant: the effect returns no cleanup
UnsubscribeNothing(active, slot) == active

\* the cleanup an effect returned is called: unsub()
Unsubscribe(active, slot) == { l \in active : <<l.id>> # slot }

Cleanup(reg, effect) ==
    [active   |-> Unsubscribe(reg.active, reg.cleanups[effect]),
     cleanups |-> [reg.cleanups EXCEPT ![effect] = <<>>]]

\* every listening effect of the view is cleaned up
CleanupAll(reg) ==
    Cleanup(Cleanup(Cleanup(Cleanup(reg, "users"), "deposits"), "loans"),
            "messages")

\* the two listening effects of ChatBox run
ChatListeners(reg, user) ==
    IF user = <<>> THEN reg
    ELSE onSnapshot(onSnapshot(reg, "messages", "messages"), "users", "users")

\* the presence effect of ChatBox runs with a user: setUserOnline() issues
\* its updateDoc and the 30 second interval is set
PresenceStarted(p) ==
    [p EXCEPT !.heartbeat = TRUE, !.writes = Append(@, "online")]

\* the cleanup of the presence effect: clearInterval, and setUserOffline()
\* issues its updateDoc
PresenceStopped(p) ==
    [p EXCEPT !.heartbeat = FALSE, !.writes = Append(@, "offline")]

\* the view mounts: its effects run in the order they are written
MountView ==
    /\ ~screen.mounted
    /\ Cardinality(FreeIds(Registry)) >= 2
    /\ Len(presence.writes) + 2 <= MaxWrites
    /\ LET after ==
             CASE screen.name = "deposits" ->
                    onSnapshot(onSnapshot(Registry, "users", "users"),
                               "deposits", "deposits")
               [] screen.name = "loans" ->
                    onSnapshot(Registry, "users", "users")
               [] OTHER -> ChatListeners(Registry, screen.currentUser)
       IN  /\ listeners' = after.active
           /\ screen' = [screen EXCEPT !.mounted = TRUE,
                                       !.usersLoaded = FALSE,
                                       !.cleanups = after.cleanups]
    /\ presence' = IF screen.name = "chat" /\ screen.currentUser # <<>>
                   THEN PresenceStarted(presence) ELSE presence
    /\ UNCHANGED <<outsideLive, chatForm, messagesDb, sends>>

\* the view unmounts: every cleanup is called and the component's state is
\* gone; an invocation still awaiting the backend sets state of a component
\* that no longer exists
UnmountView ==
    /\ screen.mounted
    /\ listeners' = CleanupAll(Registry).active
    /\ screen' = [screen EXCEPT !.mounted = FALSE, !.usersLoaded = FALSE,
                                !.cleanups = NoCleanups]
    /\ presence' = IF screen.name = "chat" /\ screen.currentUser # <<>>
                   THEN PresenceStopped(presence) ELSE presence
    /\ chatForm' = FormInit
    /\ sends' = [i \in DOMAIN sends |-> [sends[i] EXCEPT !.orphan = TRUE]]
    /\ UNCHANGED <<outsideLive, messagesDb>>

\* loans page: the users listener delivers a snapshot: setUsers(userData),
\* setUsersLoaded(true); the loans effect, which depends on both, runs again
UsersSnapshot ==
    /\ screen.mounted /\ screen.name = "loans"
    /\ \E l \in listeners : <<l.id>> = screen.cleanups["users"]
    /\ FreeIds(Cleanup(Registry, "loans")) # {}
    /\ LET after == onSnapshot(Cleanup(Registry, "loans"), "loans", "loans")
       IN  /\ listeners' = after.active
           /\ screen' = [screen EXCEPT !.usersLoaded = TRUE,
                                       !.cleanups = after.cleanups]
    /\ UNCHANGED <<outsideLive, chatForm, messagesDb, sends, presence>>

\* a listener ends with an error: the backend drops it and the error
\* callback, where there is one, runs; on the loans page the users
\* listener's callback calls setUsersLoaded(true)
ListenerError(l) ==
    /\ screen.mounted
    /\ l \in listeners
    /\ LET dead == [active |-> listeners \ {l}, cleanups |-> screen.cleanups]
           ofLoansUsers == screen.name = "loans" /\ l.query = "users"
           after == IF ofLoansUsers /\ ~screen.usersLoaded
                    THEN onSnapshot(Cleanup(dead, "loans"), "loans", "loans")
                    ELSE dead
       IN  /\ FreeIds(dead) # {}
           /\ listeners' = after.active
           /\ screen' = [screen EXCEPT
                           !.usersLoaded = IF ofLoansUsers THEN TRUE ELSE @,
                           !.cleanups = after.cleanups]
    /\ UNCHANGED <<outsideLive, chatForm, messagesDb, sends, presence>>

\* ChatBox: currentUser of the auth context changes; the three effects
\* depend on it: their cleanups are called, then they run again
AuthContextChanges(user) ==
    /\ screen.name = "chat"
    /\ user # screen.currentUser
    /\ user # <<>> => Len(presence.writes) + 2 <= MaxWrites
    /\ IF ~screen.mounted
       THEN /\ screen' = [screen EXCEPT !.currentUser = user]
            /\ UNCHANGED <<listeners, presence>>
       ELSE LET after == ChatListeners(CleanupAll(Registry), user)
                stopped == IF screen.currentUser # <<>>
                           THEN PresenceStopped(presence) ELSE presence
            IN  /\ listeners' = after.active
                /\ screen' = [screen EXCEPT !.currentUser = user,
                                            !.cleanups = after.cleanups]
                /\ presence' = IF user # <<>> THEN PresenceStarted(stopped)
                               ELSE stopped
    /\ UNCHANGED <<outsideLive, chatForm, messagesDb, sends>>

\* the interval fires: updateDoc(userRef, {lastActive})
HeartbeatFires ==
    /\ presence.heartbeat
    /\ Len(presence.writes) + 2 <= MaxWrites
    /\ presence' = [presence EXCEPT !.writes = Append(@, "heartbeat")]
    /\ UNCHANGED <<outsideLive, screen, listeners, chatForm, messagesDb,
                   sends>>

\* the oldest write to the user's document settles; the writes of one
\* client are applied in the order they were issued
PresenceWriteSettles(ok) ==
    /\ presence.writes # <<>>
    /\ presence' =
          [presence EXCEPT
             !.writes = Tail(@),
             !.isOnline = IF ~ok THEN @
                          ELSE CASE Head(presence.writes) = "online" -> TRUE
                                 [] Head(presence.writes) = "offline" -> FALSE
                                 [] OTHER -> @]
    /\ UNCHANGED <<outsideLive, screen, listeners, chatForm, messagesDb,
                   sends>>

RECURSIVE TrimStart(_)
TrimStart(text) ==
    IF text # <<>> /\ Head(text) = " " THEN TrimStart(Tail(text)) ELSE text

\* newMessage.trim()
Trim(text) == Reverse(TrimStart(Reverse(TrimStart(text))))

\* onChange={e => setNewMessage(e.target.value)}
onChangeMessage(text) ==
    /\ screen.mounted /\ screen.name = "chat" /\ screen.currentUser # <<>>
    /\ text # chatForm.newMessage
    /\ chatForm' = [chatForm EXCEPT !.newMessage = text]
    /\ UNCHANGED <<outsideLive, screen, listeners, messagesDb, sends,
                   presence>>

\* handleImageSelection(e): no file, a file that is not an image, an image
handleImageSelection(file) ==
    /\ screen.mounted /\ screen.name = "chat" /\ screen.currentUser # <<>>
    /\ chatForm' = IF file = "image"
                   THEN [chatForm EXCEPT !.selectedImage = <<"image">>]
                   ELSE chatForm
    /\ UNCHANGED <<outsideLive, screen, listeners, messagesDb, sends,
                   presence>>

removeSelectedImage ==
    /\ screen.mounted /\ screen.name = "chat" /\ screen.currentUser # <<>>
    /\ chatForm.selectedImage # <<>>
    /\ chatForm' = [chatForm EXCEPT !.selectedImage = <<>>]
    /\ UNCHANGED <<outsideLive, screen, listeners, messagesDb, sends,
                   presence>>

\* sendMessage(e) up to its first await
sendMessage ==
    /\ screen.mounted /\ screen.name = "chat"
    /\ Len(messagesDb) + Len(sends) < MaxMessages
    /\ IF \/ screen.currentUser = <<>>
          \/ (Trim(chatForm.newMessage) = <<>>
                /\ chatForm.selectedImage = <<>>)
       THEN UNCHANGED sends
       ELSE sends' =
              Append(sends,
                     [pc |-> IF chatForm.selectedImage # <<>> THEN "upload"
                             ELSE "addDoc",
                      text |-> chatForm.newMessage,
                      imageUrl |-> <<>>,
                      userId |-> screen.currentUser[1],
                      orphan |-> FALSE])
    /\ UNCHANGED <<outsideLive, screen, listeners, chatForm, messagesDb,
                   presence>>

\* mutant: the form is reset whether or not the message was written
SendFailedFormReset(form) == [FormInit EXCEPT !.alerted = TRUE]

\* the catch block of sendMessage: console.error and alert
SendFailed(form) == [form EXCEPT !.alerted = TRUE]

\* the awaited uploadImageToCloudinary settles: with data.secure_url, with
\* a response that has no secure_url (addDoc then throws on the undefined
\* imageUrl), or with a rejection
ImageUploadSettles(i, outcome) ==
    /\ i \in DOMAIN sends
    /\ sends[i].pc = "upload"
    /\ IF outcome = "url"
       THEN /\ sends' = [sends EXCEPT ![i].pc = "addDoc",
                                      ![i].imageUrl = <<"secure_url">>]
            /\ UNCHANGED chatForm
       ELSE /\ sends' = RemoveAt(sends, i)
            /\ chatForm' = IF sends[i].orphan THEN chatForm
                           ELSE SendFailed(chatForm)
    /\ UNCHANGED <<outsideLive, screen, listeners, messagesDb, presence>>

\* the awaited addDoc settles: on success the form is reset
AddDocSettles(i, ok) ==
    /\ i \in DOMAIN sends
    /\ sends[i].pc = "addDoc"
    /\ messagesDb' =
          IF ok THEN Append(messagesDb, [text     |-> sends[i].text,
                                         imageUrl |-> sends[i].imageUrl,
                                         userId   |-> sends[i].userId])
          ELSE messagesDb
    /\ chatForm' = IF sends[i].orphan THEN chatForm
                   ELSE IF ok THEN [FormInit EXCEPT
                                      !.alerted = chatForm.alerted]
                   ELSE SendFailed(chatForm)
    /\ sends' = RemoveAt(sends, i)
    /\ UNCHANGED <<outsideLive, screen, listeners, presence>>

----------------------------------------------------------------------------
(* Values of the variables a specification does not use *)

NoTotals ==
    [totalDeposits |-> 0, totalLoans |-> 0, paidLoansCount |-> 0,
     unpaidLoansCount |-> 0]

NoDb == [users |-> <<>>, deposits |-> <<>>, loans |-> <<>>]

\* the page's state after construction (the useState initial values)
PageInit ==
    /\ selectedYear = CurrentYear
    /\ selectedMonth = "all"
    /\ users = <<>>
    /\ userReports = NoReports
    /\ chartData = <<>>
    /\ comparisonData = <<>>
    /\ loading = TRUE
    /\ error = Null
    /\ indexError = [deposits |-> Null, loans |-> Null]
    /\ fetches = <<>>

NoQuery ==
    [coll |-> "deposits", userIds |-> <<>>, startDate |-> 0, endDate |-> 0]

QueryIdle ==
    /\ argQuery = NoQuery
    /\ retFetch = EmptyMapping
    /\ retOutcome = "none"

AggIdle ==
    /\ phase = "input"
    /\ argDeposits = <<>>
    /\ argLoans = <<>>
    /\ argYear = CurrentYear
    /\ retTotals = NoTotals
    /\ retMonthly = <<>>

PagingIdle ==
    /\ pgArgs = [data |-> <<>>, itemsPerPage |-> itemsPerPage,
                 currentPage |-> 1]
    /\ pgRet = [totalPages |-> 0, currentData |-> <<>>]

\* the useState initial values of the table and the modal
ViewInit ==
    /\ debouncedSearchQuery = <<>>
    /\ showOnlyUnpaid = FALSE
    /\ currentPage = 1
    /\ selectedUser = <<>>
    /\ isModalOpen = FALSE
    /\ modalPages = NoModalPages
    /\ crashed = FALSE

PdfIdle ==
    /\ pdfArgs = [userReports |-> <<<<>>>>, year |-> CurrentYear,
                  save |-> "ok"]
    /\ pdfRet = [kind |-> "none"]

\* no moderation page is mounted
AdminIdle ==
    /\ route = "none"
    /\ interestDocs = <<>>
    /\ interestPage = InterestPageInit
    /\ saveCall = NoSaveCall
    /\ docStatus = AllPending
    /\ depositsPage = ModerationPageInit
    /\ loansPage = LoansPageInit
    /\ otherSession = SnapshotOf(AllPending)
    /\ calls = NoCalls

ChunkIdle ==
    /\ chunkArg = <<>>
    /\ chunkRet = [done |-> FALSE, userIdChunks |-> <<>>, queries |-> {}]

BlockIdle ==
    /\ authUser = <<>>
    /\ ctxUser = <<>>
    /\ userDoc = [exists |-> FALSE, isBlocked |-> "undefined"]
    /\ location = "/"
    /\ intervalSet = FALSE
    /\ checks = <<>>
    /\ lastReturn = NoReturn

LiveIdle ==
    /\ screen = ScreenIdle
    /\ listeners = {}
    /\ chatForm = FormInit
    /\ messagesDb = <<>>
    /\ sends = <<>>
    /\ presence = PresenceInit

MoreIdle == ChunkIdle /\ BlockIdle /\ LiveIdle

OtherIdle == PagingIdle /\ ViewInit /\ PdfIdle /\ AdminIdle /\ MoreIdle

SeqsUpTo(S, n) == UNION { [1..k -> S] : k \in 0..n }

Years == FirstYear..CurrentYear

----------------------------------------------------------------------------
(* SpecTotals: calculateUserTotals on every pair of bounded lists *)

Statuses == {"approved", "pending", "Approved", Absent}

TotalsDeposits == [amount : {0, 2000, 3000}, timestamp : {NewDate(2023, 0, 15)}]

TotalsLoans ==
    [amount : {1000, 2500}, timestamp : {NewDate(2023, 2, 10)},
     paymentStatus : Statuses]

InitTotals ==
    /\ phase = "input"
    /\ argDeposits \in SeqsUpTo(TotalsDeposits, MaxLen)
    /\ argLoans \in SeqsUpTo(TotalsLoans, MaxLen)
    /\ argYear = CurrentYear
    /\ retTotals = NoTotals
    /\ retMonthly = <<>>
    /\ db = NoDb
    /\ QueryIdle
    /\ PageInit
    /\ OtherIdle

CallTotals ==
    /\ phase = "input"
    /\ phase' = "returned"
    /\ retTotals' = calculateUserTotals(argDeposits, argLoans)
    /\ UNCHANGED <<argDeposits, argLoans, argYear, retMonthly, db, otherVars, queryVars,
                   pageVars>>

NextTotals == CallTotals

SpecTotals == InitTotals /\ [][NextTotals]_vars

----------------------------------------------------------------------------
(* SpecMonth: groupDataByMonth on bounded lists of sampled instants *)

\* instants of interest in year y: per sampled month its first instant, the
\* midnight that starts its last day, and its last instant
SampleMonths == {2, 12}

Samples(y) ==
    UNION { { NewDate(y, m - 1, 1), NewDate(y, m, 0), NewDate(y, m, 1) - 1 } :
            m \in SampleMonths }

AllSamples == UNION { Samples(y) : y \in Years }

MonthLoans ==
    [amount : {500}, timestamp : {NewDate(CurrentYear, 1, 1),
                                  NewDate(CurrentYear, 2, 1) - 1},
     paymentStatus : {"pending"}]

InitMonth ==
    /\ phase = "input"
    /\ argDeposits \in SeqsUpTo([amount : {1000, 2000}, timestamp : AllSamples],
                                MaxRecs)
    /\ argLoans \in SeqsUpTo(MonthLoans, 1)
    /\ argYear \in Years
    /\ retTotals = NoTotals
    /\ retMonthly = <<>>
    /\ db = NoDb
    /\ QueryIdle
    /\ PageInit
    /\ OtherIdle

CallGroup ==
    /\ phase = "input"
    /\ phase' = "returned"
    /\ retMonthly' = groupDataByMonth(argDeposits, argLoans, argYear)
    /\ UNCHANGED <<argDeposits, argLoans, argYear, retTotals, db, otherVars, queryVars,
                   pageVars>>

NextMonth == CallGroup

SpecMonth == InitMonth /\ [][NextMonth]_vars

----------------------------------------------------------------------------
(* SpecQuery: one fetcher call on every bounded collection *)

QueryUsers == {1, 2, 3}

\* the chunk of the call: user 3's documents are not asked for
QueryChunk == <<1, 2>>

\* the last instant of 2022, the first instant of February 2023, the
\* midnight that starts its last day, and the instant after that midnight
QueryInstants ==
    { NewDate(2023, 0, 1) - 1, NewDate(2023, 1, 1), NewDate(2023, 2, 0),
      NewDate(2023, 2, 0) + 1 }

\* the windows fetchUserReports asks for: a year, or a month of a year
QueryWindows ==
    { [coll |-> c, userIds |-> QueryChunk, startDate |-> getStartOfYear(y),
       endDate |-> getEndOfYear(y)] : c \in {"deposits", "loans"}, y \in Years }
    \cup
    { [coll |-> c, userIds |-> QueryChunk,
       startDate |-> getStartOfMonth(2023, 2),
       endDate |-> getEndOfMonth(2023, 2)] : c \in {"deposits", "loans"} }

DepositDocs(n) ==
    { [ i \in 1..n |-> [id |-> i, userId |-> f[i].userId, amount |-> 1000 * i,
                        timestamp |-> f[i].timestamp] ] :
      f \in [1..n -> [userId : QueryUsers, timestamp : QueryInstants]] }

AsLoans(docs) ==
    [ i \in 1..Len(docs) |->
        [id |-> docs[i].id, userId |-> docs[i].userId,
         amount |-> docs[i].amount, timestamp |-> docs[i].timestamp,
         paymentStatus |-> "pending"] ]

InitQuery ==
    /\ AggIdle
    /\ \E n \in 0..MaxDocs : \E docs \in DepositDocs(n) :
           db = [users |-> <<>>, deposits |-> docs, loans |-> AsLoans(docs)]
    /\ argQuery \in QueryWindows
    /\ retFetch = EmptyMapping
    /\ retOutcome = "none"
    /\ PageInit
    /\ OtherIdle

CallFetchDeposits(outcome) ==
    /\ argQuery.coll = "deposits"
    /\ retOutcome = "none"
    /\ retOutcome' = outcome
    /\ retFetch' = fetchDepositsForUsers(argQuery.userIds, argQuery.startDate,
                                         argQuery.endDate, outcome)
    /\ UNCHANGED <<aggVars, db, otherVars, argQuery, pageVars>>

CallFetchLoans(outcome) ==
    /\ argQuery.coll = "loans"
    /\ retOutcome = "none"
    /\ retOutcome' = outcome
    /\ retFetch' = fetchLoansForUsers(argQuery.userIds, argQuery.startDate,
                                      argQuery.endDate, outcome)
    /\ UNCHANGED <<aggVars, db, otherVars, argQuery, pageVars>>

NextQuery ==
    \/ \E o \in Outcomes : CallFetchDeposits(o)
    \/ \E o \in Outcomes : CallFetchLoans(o)

SpecQuery == InitQuery /\ [][NextQuery]_vars

----------------------------------------------------------------------------
(* Spec: the annual reports page over a fixed database *)

\* 1..NumUsers: the last user is the only one of the second chunk
PageUsers == [ u \in 1..NumUsers |-> [id |-> u] ]

PageDeposits ==
    << [id |-> 1, userId |-> 1, amount |-> 3000,
        timestamp |-> NewDate(2023, 0, 15)],
       \* the last day of February 2023, after midnight
       [id |-> 2, userId |-> 1, amount |-> 2000,
        timestamp |-> NewDate(2023, 2, 0) + 1],
       \* the last instant of 2023
       [id |-> 3, userId |-> NumUsers, amount |-> 500,
        timestamp |-> NewDate(2024, 0, 1) - 1],
       [id |-> 4, userId |-> 2, amount |-> 700,
        timestamp |-> NewDate(2022, 2, 10)] >>

PageLoans ==
    << [id |-> 1, userId |-> 1, amount |-> 1000,
        timestamp |-> NewDate(2023, 2, 10), paymentStatus |-> "approved"],
       [id |-> 2, userId |-> 1, amount |-> 1000,
        timestamp |-> NewDate(2023, 1, 5), paymentStatus |-> "pending"],
       [id |-> 3, userId |-> NumUsers, amount |-> 400,
        timestamp |-> NewDate(2023, 1, 1), paymentStatus |-> Absent],
       [id |-> 4, userId |-> 2, amount |-> 300,
        timestamp |-> NewDate(2023, 0, 1) - 1, paymentStatus |-> "Approved"] >>

Init ==
    /\ AggIdle
    /\ QueryIdle
    /\ db = [users |-> PageUsers, deposits |-> PageDeposits,
             loans |-> PageLoans]
    /\ PageInit
    /\ OtherIdle

Next ==
    \/ Mount
    \/ \E y \in generateYearOptions : ChangeYear(y)
    \/ \E m \in MonthChoices : ChangeMonth(m)
    \/ ApplyFilters
    \/ \E f \in DOMAIN fetches : UsersLoaded(f)
    \/ \E f \in DOMAIN fetches : UsersFailed(f)
    \/ \E f \in DOMAIN fetches : DataDone(f)
    \/ \E f \in DOMAIN fetches : PrevSettled(f)
    \/ \E f \in DOMAIN fetches : PrevDone(f)

Spec == Init /\ [][Next]_vars

----------------------------------------------------------------------------
(* Specification of one paginated rendering: a sequence of up to MaxRows   *)
(* rows, shown with the page size of the summary table or of the modal.    *)

PageSizes == {itemsPerPage, ModalItemsPerPage}

InitPaging ==
    /\ AggIdle
    /\ db = NoDb
    /\ QueryIdle
    /\ PageInit
    /\ ViewInit
    /\ PdfIdle
    /\ AdminIdle
    /\ MoreIdle
    /\ \E n \in 0..MaxRows : \E size \in PageSizes :
           pgArgs = [data |-> [i \in 1..n |-> i], itemsPerPage |-> size,
                     currentPage |-> 1]
    /\ pgRet = Render(pgArgs)

\* a click on a page number, and the rendering that follows
ShowPage(page) ==
    /\ page \in 1..pgRet.totalPages
    /\ pgArgs' = [pgArgs EXCEPT !.currentPage = page]
    /\ pgRet' = Render(pgArgs')
    /\ UNCHANGED <<aggVars, db, queryVars, pageVars, viewVars, pdfVars,
                   adminVars, moreVars>>

NextPaging == \E page \in 1..Ceil(MaxRows, ModalItemsPerPage) : ShowPage(page)

SpecPaging == InitPaging /\ [][NextPaging]_vars

----------------------------------------------------------------------------
(* Specification of the summary table and the modal: the report store is   *)
(* replaced by the reports of one of two date ranges over the same users.  *)

Generations == {1, 2}

TableUsers ==
    [ u \in 1..NumRows |->
        IF u % 3 = 0
        THEN [id |-> u, name |-> IF u % 2 = 1 THEN <<"A", "n">>
                                 ELSE <<"B", "o">>,
              email |-> <<"a", "b">>]
        ELSE [id |-> u, name |-> IF u % 2 = 1 THEN <<"A", "n">>
                                 ELSE <<"B", "o">>] ]

\* user 1 has more deposits than a page of the modal in range 1 and fewer
\* in range 2; user 2 has one and then none; the others have one
DepositCount(u, g) ==
    IF u = 1 THEN (IF g = 1 THEN ModalItemsPerPage + 1 ELSE 2)
    ELSE IF u = 2 THEN 2 - g
    ELSE 1

TableDeposits(g) ==
    [ u \in { v \in 1..NumRows : DepositCount(v, g) > 0 } |->
        [ k \in 1..DepositCount(u, g) |->
            [id |-> 10 * u + k, userId |-> u, amount |-> 100 * g,
             timestamp |-> NewDate(FirstYear + g - 1, 0, 20 - k)] ] ]

TableLoans(g) ==
    [ u \in 1..NumRows |->
        << [id |-> u, userId |-> u, amount |-> 50,
            timestamp |-> NewDate(FirstYear + g - 1, 0, 1),
            paymentStatus |-> IF (u + g) % 2 = 0 THEN "pending"
                              ELSE "approved"] >> ]

TableStores ==
    [ g \in Generations |->
        BuildReports(TableUsers, TableDeposits(g), TableLoans(g)) @@ <<>> ]
    @@ <<>>

SearchTexts == { <<>>, <<" ">>, <<"a">>, <<"B", "O">> }

InitTable ==
    /\ AggIdle
    /\ db = NoDb
    /\ QueryIdle
    /\ PageInit
    /\ OtherIdle

NextTable ==
    \/ \E text \in SearchTexts : SearchSettled(text)
    \/ ToggleUnpaid
    \/ PreviousPage
    \/ NextPage
    \/ \E page \in 1..Ceil(NumRows, itemsPerPage) : GoToPage(page)
    \/ \E u \in 1..NumRows : handleViewDetails(u)
    \/ handleCloseModal
    \/ \E coll \in {"deposits", "loans"} : ModalPreviousPage(coll)
    \/ \E coll \in {"deposits", "loans"} : ModalNextPage(coll)
    \/ \E coll \in {"deposits", "loans"} :
         \E page \in 1..2 : ModalGoToPage(coll, page)
    \/ ReloadStarted
    \/ \E g \in Generations : ReportsLoaded(TableStores[g])
    \/ ReportsFailed

SpecTable == InitTable /\ [][NextTable]_vars

----------------------------------------------------------------------------
(* Specification of one exportToPDF call.  The reports are well formed or  *)
(* lack a field the generation reads; userReports may be null.             *)

GoodReport ==
    [user |-> [id |-> 1, name |-> <<"A", "n">>],
     deposits |-> << [amount |-> 3000, timestamp |-> NewDate(CurrentYear, 0, 15)],
                     [amount |-> 2000] >>,
     loans |-> << [amount |-> 1000, paymentStatus |-> "approved"] >>,
     totalDeposits |-> 5000, totalLoans |-> 1000,
     paidLoansCount |-> 1, unpaidLoansCount |-> 0]

EmptyReport ==
    [user |-> [id |-> 2], deposits |-> <<>>, loans |-> <<>>,
     totalDeposits |-> 0, totalLoans |-> 0,
     paidLoansCount |-> 0, unpaidLoansCount |-> 0]

PdfReports ==
    { GoodReport,
      EmptyReport,
      \* no user
      [deposits |-> <<>>, loans |-> <<>>, totalDeposits |-> 0,
       totalLoans |-> 0, paidLoansCount |-> 0, unpaidLoansCount |-> 0],
      \* no totals
      [user |-> [id |-> 3], deposits |-> <<>>, loans |-> <<>>],
      \* no record lists
      [user |-> [id |-> 4], totalDeposits |-> 0, totalLoans |-> 0,
       paidLoansCount |-> 0, unpaidLoansCount |-> 0],
      \* a deposit without amount
      [user |-> [id |-> 5], deposits |-> << [timestamp |-> 0] >>,
       loans |-> <<>>, totalDeposits |-> 0, totalLoans |-> 0,
       paidLoansCount |-> 0, unpaidLoansCount |-> 0] }

PdfInputs == {<<>>} \cup { <<a>> : a \in SeqsUpTo(PdfReports, MaxLen) }

InitPdf ==
    /\ AggIdle
    /\ db = NoDb
    /\ QueryIdle
    /\ PageInit
    /\ PagingIdle
    /\ ViewInit
    /\ AdminIdle
    /\ MoreIdle
    /\ \E reports \in PdfInputs : \E year \in Years :
       \E save \in {"ok", "raises"} :
           pdfArgs = [userReports |-> reports, year |-> year, save |-> save]
    /\ pdfRet = [kind |-> "none"]

\* handleExportPDF: const result = exportToPDF(data, selectedYear)
CallExport ==
    /\ pdfRet.kind = "none"
    /\ pdfRet' = exportToPDF(pdfArgs.userReports, pdfArgs.year, pdfArgs.save)
    /\ UNCHANGED <<aggVars, db, queryVars, pageVars, pagingVars, viewVars,
                   pdfArgs, adminVars, moreVars>>

NextPdf == CallExport

SpecPdf == InitPdf /\ [][NextPdf]_vars

----------------------------------------------------------------------------
(* Specification of the moderation pages: one of the three pages is        *)
(* mounted; the admin types, clicks, and the backend calls settle.         *)

\* characters the admin types: white space, a letter, the sign, the
\* decimal point and two digits
InputChars == {" ", "a", "-", ".", "0", "1"}

\* rates stored before the page is opened: 5 and 7.5 percent
SampleRates ==
    <<[nan |-> FALSE, neg |-> FALSE, m |-> 5, d |-> 0],
      [nan |-> FALSE, neg |-> FALSE, m |-> 75, d |-> 1]>>

StoredHistories ==
    { [i \in 1..n |-> [id |-> i, interest |-> SampleRates[i],
                       timestamp |-> i]] : n \in 0..MaxStored }

InitAdmin ==
    /\ AggIdle
    /\ db = NoDb
    /\ QueryIdle
    /\ PageInit
    /\ PagingIdle
    /\ ViewInit
    /\ PdfIdle
    /\ MoreIdle
    /\ route \in {"interest", "deposits", "loans"}
    /\ interestDocs \in IF route = "interest" THEN StoredHistories
                        ELSE {<<>>}
    /\ interestPage = InterestPageInit
    /\ saveCall = NoSaveCall
    /\ docStatus = AllPending
    /\ depositsPage = ModerationPageInit
    /\ loansPage = LoansPageInit
    /\ otherSession = SnapshotOf(AllPending)
    /\ calls = NoCalls

\* one keystroke in the input box: a character typed at the end, or the
\* last character deleted
Edits(text) ==
    { Append(text, c) : c \in IF Len(text) < MaxText THEN InputChars ELSE {} }
    \cup (IF text = <<>> THEN {} ELSE {SubSeq(text, 1, Len(text) - 1)})

NextAdmin ==
    \/ \E ok \in BOOLEAN : fetchInterest(ok)
    \/ \E text \in Edits(interestPage.typed) : onChange(text)
    \/ handleSave
    \/ \E ok \in BOOLEAN : WriteSettles(ok)
    \/ \E ok \in BOOLEAN : RefreshSettles(ok)
    \/ \E id \in ItemIds : \E status \in {"accepted", "denied"} :
           handleApproveDeny(id, status)
    \/ \E call \in calls : \E ok \in BOOLEAN : DepositUpdateSettles(call, ok)
    \/ \E id \in ItemIds : handleReceiptFileChange(id)
    \/ \E id \in ItemIds : \E confirmed \in BOOLEAN :
           acceptLoanWithReceipt(id, confirmed)
    \/ \E id \in ItemIds : \E confirmed \in BOOLEAN : denyLoan(id, confirmed)
    \/ \E call \in calls : \E ok \in BOOLEAN : UploadSettles(call, ok)
    \/ \E call \in calls : \E ok \in BOOLEAN : LoanUpdateSettles(call, ok)
    \/ DepositsSnapshot
    \/ LoansSnapshot
    \/ OtherSessionSnapshot
    \/ \E id \in ItemIds : \E status \in {"accepted", "denied"} :
           OtherSessionActs("deposits", id, status)
    \/ \E id \in ItemIds : OtherSessionActs("loans", id, "denied")

SpecAdmin == InitAdmin /\ [][NextAdmin]_vars

----------------------------------------------------------------------------
(* Specification of the chunking of fetchUserReports: a list of distinct   *)
(* user ids, in ascending or descending document order.                    *)

UserIdLists ==
    { [i \in 1..n |-> first + i - 1] : n \in 0..MaxIds, first \in 1..3 }
    \cup { [i \in 1..n |-> first + n - i] : n \in 0..MaxIds, first \in 1..3 }

OtherThanChunks ==
    /\ AggIdle
    /\ db = NoDb
    /\ QueryIdle
    /\ PageInit
    /\ PagingIdle
    /\ ViewInit
    /\ PdfIdle
    /\ AdminIdle

InitChunks ==
    /\ OtherThanChunks
    /\ BlockIdle
    /\ LiveIdle
    /\ chunkArg \in UserIdLists
    /\ chunkRet = [done |-> FALSE, userIdChunks |-> <<>>, queries |-> {}]

\* the chunk loop of fetchUserReports and the two userIdChunks.map(...)
\* that issue one deposits and one loans query per chunk
CallChunks ==
    /\ ~chunkRet.done
    /\ chunkRet' = [done         |-> TRUE,
                    userIdChunks |-> userIdChunks(chunkArg),
                    queries      |-> Queries(userIdChunks(chunkArg))]
    /\ UNCHANGED <<outsideMore, chunkArg, blockVars, liveVars>>

NextChunks == CallChunks

SpecChunks == InitChunks /\ [][NextChunks]_vars

----------------------------------------------------------------------------
(* Specification of the blocked-user check: somebody or nobody is signed   *)
(* in, the user's document is missing or carries any isBlocked value, and  *)
(* an admin toggles the flag.                                              *)

UserDocs ==
    {[exists |-> FALSE, isBlocked |-> "undefined"]}
    \cup { [exists |-> TRUE, isBlocked |-> v] : v \in FieldValues }

InitBlock ==
    /\ OtherThanChunks
    /\ ChunkIdle
    /\ LiveIdle
    /\ authUser \in {<<>>, <<1>>}
    /\ ctxUser = authUser
    /\ userDoc \in UserDocs
    /\ location = "/"
    /\ intervalSet = FALSE
    /\ checks = <<>>
    /\ lastReturn = NoReturn

NextBlock ==
    \/ MountChecker
    \/ IntervalFires
    \/ \E i \in 1..MaxInFlight : \E ok \in BOOLEAN : GetDocSettles(i, ok)
    \/ \E i \in 1..MaxInFlight : \E ok \in BOOLEAN : SignOutSettles(i, ok)
    \/ AuthStateChanged
    \/ toggleUserBlockStatus
    \/ handleGoHome

SpecBlock == InitBlock /\ [][NextBlock]_vars

\* the interval keeps firing, and every backend call that keeps being
\* issued succeeds at some time
FairBlock ==
    /\ WF_vars(MountChecker)
    /\ WF_vars(IntervalFires)
    /\ \A i \in 1..MaxInFlight :
           /\ SF_vars(GetDocSettles(i, TRUE))
           /\ SF_vars(SignOutSettles(i, TRUE))

SpecBlockFair == SpecBlock /\ FairBlock

----------------------------------------------------------------------------
(* Specification of the listening views: one of the three is mounted and   *)
(* unmounted; on the chat somebody or nobody is signed in.                 *)

ChatTexts == { <<>>, <<" ">>, <<"a", " ">> }

InitLive ==
    /\ OtherThanChunks
    /\ ChunkIdle
    /\ BlockIdle
    /\ \E name \in {"deposits", "loans", "chat"} :
         \E user \in {<<>>, <<1>>} :
            /\ name # "chat" => user = <<>>
            /\ screen = [ScreenIdle EXCEPT !.name = name,
                                           !.currentUser = user]
    /\ listeners = {}
    /\ chatForm = FormInit
    /\ messagesDb = <<>>
    /\ sends = <<>>
    /\ presence = PresenceInit

NextLive ==
    \/ MountView
    \/ UnmountView
    \/ UsersSnapshot
    \/ \E l \in listeners : ListenerError(l)
    \/ \E user \in {<<>>, <<1>>} : AuthContextChanges(user)
    \/ HeartbeatFires
    \/ \E ok \in BOOLEAN : PresenceWriteSettles(ok)
    \/ \E text \in ChatTexts : onChangeMessage(text)
    \/ \E file \in {"none", "other", "image"} : handleImageSelection(file)
    \/ removeSelectedImage
    \/ sendMessage
    \/ \E i \in 1..MaxMessages :
         \E outcome \in {"url", "noUrl", "throws"} :
            ImageUploadSettles(i, outcome)
    \/ \E i \in 1..MaxMessages : \E ok \in BOOLEAN : AddDocSettles(i, ok)

SpecLive == InitLive /\ [][NextLive]_vars

----------------------------------------------------------------------------
(* Properties of the aggregator and of the fetchers *)

\* the arithmetic sum of f over the finite set S
RECURSIVE SumOver(_, _)
SumOver(S, f) ==
    IF S = {} THEN 0
    ELSE LET x == CHOOSE x \in S : TRUE IN f[x] + SumOver(S \ {x}, f)

ArithSum(seq) == SumOver(DOMAIN seq, [i \in DOMAIN seq |-> seq[i].amount])

\* C1: calculateUserTotals returns totalDeposits equal to the arithmetic sum
\* of the deposits' amounts and totalLoans equal to the arithmetic sum of the
\* loans' amounts, for every pair of lists, the empty ones included.
C1_TotalsAreSums ==
    phase = "returned" =>
        /\ retTotals.totalDeposits = ArithSum(argDeposits)
        /\ retTotals.totalLoans = ArithSum(argLoans)

\* the example of the specification: deposits 3000 and 2000, an approved and
\* a pending loan of equal amount
C1_Witness ==
    /\ phase = "returned"
    /\ Len(argDeposits) = 2 /\ Len(argLoans) = 2
    /\ argDeposits[1].amount = 3000 /\ argDeposits[2].amount = 2000
    /\ argLoans[1].amount = 1000 /\ argLoans[1].paymentStatus = "approved"
    /\ argLoans[2].amount = 1000 /\ argLoans[2].paymentStatus = "pending"
    /\ retTotals = [totalDeposits |-> 5000, totalLoans |-> 2000,
                    paidLoansCount |-> 1, unpaidLoansCount |-> 1]

\* C3: a loan counts as paid iff its paymentStatus is exactly "approved";
\* a loan with another status, a differently cased one or none at all,
\* counts as unpaid.
C3_PaidIffApproved ==
    phase = "returned" =>
        /\ retTotals.paidLoansCount =
               Cardinality({ i \in DOMAIN argLoans :
                               argLoans[i].paymentStatus = "approved" })
        /\ retTotals.unpaidLoansCount =
               Cardinality({ i \in DOMAIN argLoans :
                               argLoans[i].paymentStatus
                                   \in {"pending", "Approved", Absent} })

C3_Witness ==
    /\ phase = "returned"
    /\ Len(argLoans) = 2
    /\ argLoans[1].paymentStatus = "Approved"
    /\ argLoans[2].paymentStatus = Absent
    /\ retTotals.paidLoansCount = 0
    /\ retTotals.unpaidLoansCount = 2

\* the calendar month (1..12) of a record, when it lies in year y; 0 otherwise
CalendarMonthIn(rec, y) ==
    IF YearOf(rec.timestamp) = y THEN MonthOf(rec.timestamp) ELSE 0

\* C9: when every deposit lies in calendar year Y, the deposits fields of the
\* buckets of groupDataByMonth(deposits, loans, Y) add up to the sum of all
\* deposit amounts.
C9_MonthSumsCoverYear ==
    ( /\ phase = "returned"
      /\ \A i \in DOMAIN argDeposits :
             YearOf(argDeposits[i].timestamp) = argYear )
    => SumOver(DOMAIN retMonthly,
               [m \in DOMAIN retMonthly |-> retMonthly[m].deposits])
         = ArithSum(argDeposits)

\* C10: groupDataByMonth returns exactly 12 buckets, labelled January to
\* December in order; a month of the year in which no record lies has
\* deposits = 0 and loans = 0.
C10_TwelveBuckets ==
    phase = "returned" =>
        /\ Len(retMonthly) = 12
        /\ \A m \in 1..12 :
            /\ retMonthly[m].month = MonthNames[m]
            /\ (\A i \in DOMAIN argDeposits :
                    CalendarMonthIn(argDeposits[i], argYear) # m)
                   => retMonthly[m].deposits = 0
            /\ (\A i \in DOMAIN argLoans :
                    CalendarMonthIn(argLoans[i], argYear) # m)
                   => retMonthly[m].loans = 0

\* a call with a deposit on the first instant of February and a loan in
\* February: the February bucket is filled and the other eleven are empty
C10_Witness ==
    /\ phase = "returned"
    /\ Len(argDeposits) = 1 /\ Len(argLoans) = 1
    /\ argDeposits[1].timestamp = NewDate(argYear, 1, 1)
    /\ argLoans[1].timestamp = NewDate(argYear, 1, 1)
    /\ retMonthly[2].deposits = argDeposits[1].amount
    /\ retMonthly[2].loans = 500
    /\ \A m \in (1..12) \ {2} :
           retMonthly[m].deposits = 0 /\ retMonthly[m].loans = 0

\* the documents of the call's collection
QueryDocs == IF argQuery.coll = "deposits" THEN db.deposits ELSE db.loans

\* the documents of user u whose timestamp lies in [startDate, endDate]
InWindowOf(u) ==
    { i \in DOMAIN QueryDocs :
        /\ QueryDocs[i].userId = u
        /\ argQuery.startDate <= QueryDocs[i].timestamp
        /\ QueryDocs[i].timestamp <= argQuery.endDate }

\* C4: when the indexed query is rejected for a missing index, the fallback
\* returns what the indexed path would have: a list for exactly the users of
\* the chunk that have documents in [startDate, endDate], holding exactly
\* those documents once each, ordered by timestamp descending, with the
\* timestamps in the order of the indexed path's list.
C4_FallbackEquivalent ==
    retOutcome = "index" =>
        LET ref == IndexedPath(QueryDocs, argQuery.userIds,
                               argQuery.startDate, argQuery.endDate)
            got == retFetch.data
        IN  /\ DOMAIN got = DOMAIN ref.data
            /\ DOMAIN got = { u \in { argQuery.userIds[k] :
                                        k \in DOMAIN argQuery.userIds } :
                                InWindowOf(u) # {} }
            /\ \A u \in DOMAIN got :
                /\ { got[u][k] : k \in DOMAIN got[u] }
                       = { QueryDocs[i] : i \in InWindowOf(u) }
                /\ Len(got[u]) = Cardinality(InWindowOf(u))
                /\ \A j, k \in DOMAIN got[u] :
                       j < k => got[u][j].timestamp >= got[u][k].timestamp
                /\ Len(got[u]) = Len(ref.data[u])
                /\ \A k \in DOMAIN got[u] :
                       got[u][k].timestamp = ref.data[u][k].timestamp

\* a fallback call that had to drop a document outside the window and to
\* reorder the two it kept
C4_Witness ==
    /\ retOutcome = "index"
    /\ \E u \in DOMAIN retFetch.data :
        /\ Len(retFetch.data[u]) = 2
        /\ retFetch.data[u][1].id > retFetch.data[u][2].id
        /\ retFetch.data[u][1].timestamp > retFetch.data[u][2].timestamp
    /\ \E i \in DOMAIN QueryDocs :
        /\ InChunk(QueryDocs[i], argQuery.userIds)
        /\ ~InRange(QueryDocs[i], argQuery.startDate, argQuery.endDate)

----------------------------------------------------------------------------
(* Properties of the page *)

\* C2: every user report held in the report store has
\* paidLoansCount + unpaidLoansCount = the number of its loans.
C2_CountsPartitionLoans ==
    \A u \in DOMAIN userReports :
        userReports[u].paidLoansCount + userReports[u].unpaidLoansCount
            = Len(userReports[u].loans)

\* the store holds a report with a paid and an unpaid loan, and one whose
\* only loan has no paymentStatus
C2_Witness ==
    /\ \E u \in DOMAIN userReports :
        /\ userReports[u].paidLoansCount = 1
        /\ userReports[u].unpaidLoansCount = 1
    /\ \E u \in DOMAIN userReports :
        /\ Len(userReports[u].loans) = 1
        /\ userReports[u].loans[1].paymentStatus = Absent

\* invocation f returns in this step
Completes(f) == fetches[f].pc = "settled" /\ fetches'[f].pc = "done"

IndexOnly(out) == \A q \in DOMAIN out : out[q] \in {"ok", "index"}

HasOutcome(out, kinds) == \E q \in DOMAIN out : out[q] \in kinds

\* the documents of user u in collection docs that lie in the date range of
\* invocation f
InRangeOf(docs, u, f) ==
    LET range == DateRange(fetches[f].year, fetches[f].month)
    IN  { docs[i] : i \in { k \in DOMAIN docs :
                              /\ docs[k].userId = u
                              /\ InRange(docs[k], range.startDate,
                                         range.endDate) } }

Elements(seq) == { seq[k] : k \in DOMAIN seq }

\* the chunk (1, 2, ...) of the user at position u of the users list
ChunkOfUser(u) == ((u - 1) \div ChunkSize) + 1

\* C5: when the only failures of an invocation are indexed queries rejected
\* for a missing index, with the fallback succeeding, the invocation
\* returns with loading = false, sets no error (error = null when it is the
\* only invocation), and the store holds every user's records of the range.
C5_IndexFallbackNoError ==
    [][ \A f \in DOMAIN fetches :
          ( /\ Completes(f)
            /\ fetches[f].usersOk
            /\ IndexOnly(fetches[f].out1) /\ IndexOnly(fetches[f].out2)
            /\ \/ HasOutcome(fetches[f].out1, {"index"})
               \/ HasOutcome(fetches[f].out2, {"index"}) )
          => /\ loading' = FALSE
             /\ error' = error
             /\ error' # "Failed to fetch reports data"
             /\ Len(fetches) = 1 => error' = Null
             /\ DOMAIN userReports' = 1..NumUsers
             /\ \A u \in 1..NumUsers :
                 /\ Elements(userReports'[u].deposits)
                        = InRangeOf(db.deposits, u, f)
                 /\ Elements(userReports'[u].loans)
                        = InRangeOf(db.loans, u, f) ]_vars

\* the only invocation has returned after a deposits query fell back: the
\* index notice is set, no error is, and both chunks' deposits are stored
C5_Witness ==
    /\ Len(fetches) = 1 /\ fetches[1].pc = "done"
    /\ indexError.deposits = IndexMessage
    /\ loading = FALSE /\ error = Null
    /\ userReports[1].deposits # <<>>
    /\ userReports[NumUsers].deposits # <<>>

\* C6: when a chunk query of an invocation is rejected with an error other
\* than the missing-index error, the invocation ends with an error shown.
C6_OtherErrorsSurface ==
    [][ \A f \in DOMAIN fetches :
          ( /\ Completes(f)
            /\ \/ HasOutcome(fetches[f].out1, {"error"})
               \/ HasOutcome(fetches[f].out2, {"error"}) )
          => error' # Null ]_vars

\* the queries of the selected range that failed: rejected with another
\* error, or rejected for a missing index with the fallback rejected too
Failed(out) == { q \in DOMAIN out : out[q] \in {"error", "index_error"} }

TotalsOf(report, coll) ==
    IF coll = "deposits" THEN <<report.totalDeposits>>
    ELSE <<report.totalLoans, report.paidLoansCount, report.unpaidLoansCount>>

ListOf(report, coll) ==
    IF coll = "deposits" THEN report.deposits ELSE report.loans

DocsOf(coll) == IF coll = "deposits" THEN db.deposits ELSE db.loans

\* C7: when a chunk's query for a collection fails, every user of the chunk
\* still gets a report entry, with an empty list and zero totals for that
\* collection; the users of the other chunks keep their fetched records;
\* the step sets no error.
C7_FailedChunkShowsZero ==
    [][ \A f \in DOMAIN fetches :
          (Completes(f) /\ fetches[f].usersOk)
          => /\ DOMAIN userReports' = 1..NumUsers
             /\ error' = error
             /\ \A coll \in {"deposits", "loans"} : \A u \in 1..NumUsers :
                  IF <<coll, ChunkOfUser(u)>> \in Failed(fetches[f].out1)
                  THEN /\ ListOf(userReports'[u], coll) = <<>>
                       /\ \A k \in DOMAIN TotalsOf(userReports'[u], coll) :
                              TotalsOf(userReports'[u], coll)[k] = 0
                  ELSE Elements(ListOf(userReports'[u], coll))
                           = InRangeOf(DocsOf(coll), u, f) ]_vars

\* the only invocation has returned after the deposits query of the first
\* chunk was rejected: user 1 shows no deposits but keeps its loans, the
\* user of the second chunk keeps its deposit, and no error is shown
C7_Witness ==
    /\ Len(fetches) = 1 /\ fetches[1].pc = "done"
    /\ loading = FALSE /\ error = Null
    /\ indexError.deposits = Null
    /\ userReports[1].deposits = <<>> /\ userReports[1].totalDeposits = 0
    /\ userReports[1].loans # <<>>
    /\ userReports[NumUsers].deposits # <<>>

\* C8: starting a newer invocation leaves the older ones running as they
\* are, and every invocation that returns, the latest or not, writes its
\* reports to the store and clears loading.
C8_NoCancellation ==
    [][ /\ \A f \in DOMAIN fetches :
              Len(fetches') > Len(fetches) => fetches'[f] = fetches[f]
        /\ \A f \in DOMAIN fetches :
              Completes(f) => /\ userReports' = fetches[f].reports
                              /\ loading' = FALSE ]_vars

\* every invocation has returned, loading is false, and the store holds a
\* record that lies outside the range of the selected year and month
C8_Witness ==
    /\ Len(fetches) = 2
    /\ \A f \in DOMAIN fetches : fetches[f].pc = "done"
    /\ loading = FALSE
    /\ \E u \in DOMAIN userReports : \E k \in DOMAIN userReports[u].deposits :
           ~InRange(userReports[u].deposits[k],
                    DateRange(selectedYear, selectedMonth).startDate,
                    DateRange(selectedYear, selectedMonth).endDate)

\* the documents of user u in collection docs whose timestamp falls in
\* calendar month m of year y
InCalendarMonth(docs, u, y, m) ==
    { docs[i] : i \in { k \in DOMAIN docs :
                          /\ docs[k].userId = u
                          /\ YearOf(docs[k].timestamp) = y
                          /\ MonthOf(docs[k].timestamp) = m } }

\* C11: when a month M of year Y is selected and no query fails, the
\* reports stored by the invocation hold, for every user, exactly the
\* deposits and loans whose timestamp falls in month M of Y, the last day of
\* the month included.
C11_MonthWindowCoversMonth ==
    [][ \A f \in DOMAIN fetches :
          ( /\ Completes(f)
            /\ fetches[f].usersOk
            /\ fetches[f].month # "all"
            /\ ~HasOutcome(fetches[f].out1,
                           {"index", "index_error", "error"}) )
          => \A u \in 1..NumUsers :
               /\ Elements(userReports'[u].deposits)
                    = InCalendarMonth(db.deposits, u, fetches[f].year,
                                      parseInt(fetches[f].month))
               /\ Elements(userReports'[u].loans)
                    = InCalendarMonth(db.loans, u, fetches[f].year,
                                      parseInt(fetches[f].month)) ]_vars

----------------------------------------------------------------------------
(* Properties of the paginated views *)

\* the slices of pages p..totalPages of a rendering, one after the other
RECURSIVE ConcatPages(_, _)
ConcatPages(args, p) ==
    IF p > TotalPages(args.data, args.itemsPerPage) THEN <<>>
    ELSE CurrentData(args.data, p, args.itemsPerPage)
             \o ConcatPages(args, p + 1)

\* C12: for a sequence of n rows and page size s (20 for the summary
\* table), totalPages is ceil(n / s), the least k with k * s >= n, and the
\* slices of pages 1..totalPages, one after the other, are the sequence
\* itself: every row once, in the original order.
C12_PagesPartition ==
    LET n == Len(pgArgs.data)
        s == pgArgs.itemsPerPage
        k == pgRet.totalPages
    IN  /\ k \in Nat /\ k * s >= n /\ (k - 1) * s < n
        /\ ConcatPages(pgArgs, 1) = pgArgs.data
        /\ \A i \in DOMAIN pgRet.currentData :
               pgRet.currentData[i]
                   = pgArgs.data[(pgArgs.currentPage - 1) * s + i]

\* 41 rows at 20 per page: the third of three pages shows the last row
C12_Witness ==
    /\ Len(pgArgs.data) = 2 * itemsPerPage + 1
    /\ pgArgs.itemsPerPage = itemsPerPage
    /\ pgArgs.currentPage = 3
    /\ pgRet.totalPages = 3
    /\ pgRet.currentData = <<2 * itemsPerPage + 1>>

\* the page index of the summary table is in range
SummaryPageInRange ==
    (~crashed /\ filteredUsers # <<>>) => currentPage \in 1..totalPages

\* the page index of a mounted table of the modal is in range
ModalPageInRange(coll) ==
    (~crashed /\ modalPages[coll] # 0)
        => modalPages[coll] \in 1..ModalTotalPages(coll)

\* C13: in the summary table and in the deposit and loan tables of the
\* modal, the current page lies in 1..totalPages whenever the sequence
\* shown is non-empty.
C13_PageIndexInRange ==
    /\ SummaryPageInRange
    /\ \A coll \in {"deposits", "loans"} : ModalPageInRange(coll)

\* C14: every step that changes the filtered sequence of user reports sets
\* the current page of the summary table to 1.
C14_FilterChangeResetsPage ==
    [][ ( /\ ~crashed'
          /\ FilteredUsers(userReports', debouncedSearchQuery',
                           showOnlyUnpaid') # filteredUsers )
        => currentPage' = 1 ]_vars

----------------------------------------------------------------------------
(* Properties of the report store and of the loading flag *)

\* C17: the report store changes only when an invocation returns, and is
\* then replaced as a whole: it has exactly one entry per user of that
\* invocation's users query, every entry is the one the invocation
\* computed, from records of its own date range.
C17_StoreReplacedWholesale ==
    [][ /\ userReports' # userReports => \E f \in DOMAIN fetches : Completes(f)
        /\ \A f \in DOMAIN fetches :
             Completes(f)
             => /\ DOMAIN userReports'
                     = { fetches[f].usersData[i].id :
                            i \in DOMAIN fetches[f].usersData }
                /\ \A u \in DOMAIN userReports' :
                     /\ userReports'[u] = fetches[f].reports[u]
                     /\ Elements(userReports'[u].deposits)
                            \subseteq InRangeOf(db.deposits, u, f)
                     /\ Elements(userReports'[u].loans)
                            \subseteq InRangeOf(db.loans, u, f) ]_vars

\* both invocations have returned, the one for 2022 last: the store holds
\* the 2022 deposit of user 2 and nothing of the 2023 records of user 1
C17_Witness ==
    /\ Len(fetches) = 2
    /\ \A f \in DOMAIN fetches : fetches[f].pc = "done"
    /\ selectedYear = FirstYear /\ selectedMonth = "all"
    /\ DOMAIN userReports = 1..NumUsers
    /\ userReports[1].deposits = <<>>
    /\ userReports[2].deposits # <<>>

InFlight == { f \in DOMAIN fetches : fetches[f].pc # "done" }

\* once no invocation is in flight, loading is false
LoadingClearedAtRest == (fetches # <<>> /\ InFlight = {}) => ~loading

\* C18: loading is true while some fetchUserReports invocation has started
\* and not returned, and false once none is in flight.
C18_LoadingWhileInFlight ==
    /\ InFlight # {} => loading
    /\ LoadingClearedAtRest

----------------------------------------------------------------------------
(* Properties of exportToPDF *)

\* every field the generation reads is present
WellFormedReport(report) ==
    /\ {"user", "deposits", "loans", "totalDeposits", "totalLoans"}
           \subseteq DOMAIN report
    /\ \A i \in DOMAIN report.deposits : "amount" \in DOMAIN report.deposits[i]
    /\ \A i \in DOMAIN report.loans : "amount" \in DOMAIN report.loans[i]

GenerationSucceeds ==
    /\ pdfArgs.userReports # <<>>
    /\ \A i \in DOMAIN pdfArgs.userReports[1] :
           WellFormedReport(pdfArgs.userReports[1][i])
    /\ pdfArgs.save = "ok"

\* C20: exportToPDF never throws to its caller; it returns
\* {success: true, filename: "annual-reports-<year>.pdf"} when every step of
\* the generation succeeds and {success: false, error} when a step raises.
C20_ExportNeverThrows ==
    /\ pdfRet.kind # "thrown"
    /\ pdfRet.kind = "returned" =>
         IF GenerationSucceeds
         THEN pdfRet.value = [success |-> TRUE,
                              filename |-> <<"annual-reports-", pdfArgs.year,
                                             ".pdf">>]
         ELSE /\ pdfRet.value.success = FALSE
              /\ DOMAIN pdfRet.value = {"success", "error"}

\* a call with a report that lacks its totals returned {success: false}
C20_Witness ==
    /\ pdfRet.kind = "returned"
    /\ pdfArgs.save = "ok"
    /\ pdfArgs.userReports # <<>>
    /\ Len(pdfArgs.userReports[1]) = 2
    /\ WellFormedReport(pdfArgs.userReports[1][1])
    /\ ~WellFormedReport(pdfArgs.userReports[1][2])
    /\ pdfRet.value.success = FALSE

----------------------------------------------------------------------------
(* Properties of the moderation pages *)

\* the text is not a number: empty, white space only, or anything else
\* that is not a decimal numeral
NonNumeric(text) == ~IsStrDecimal(text)

\* the text is a numeral whose value lies outside [0, 100]
OutsideZeroToHundred(text) ==
    /\ IsStrDecimal(text)
    /\ LET v      == DecimalValue(text)
           signed == IF v.neg THEN 0 - v.m ELSE v.m
       IN  signed < 0 \/ signed > 100 * Pow10(v.d)

\* C15: a click on Save while the entered text is non-numeric (empty and
\* white space only included) or a number outside [0, 100] issues no
\* write (no updateDoc, no setDoc), leaves the interest collection as it
\* is and leaves an error message on the page; and the collection only
\* changes when a write that was issued settles.
C15_InvalidInputNoWrite ==
    [][/\ (handleSave /\ (\/ NonNumeric(interestPage.typed)
                          \/ OutsideZeroToHundred(interestPage.typed)))
          => /\ saveCall'.pc = "none"
             /\ interestDocs' = interestDocs
             /\ interestPage'.message # <<>>
             /\ interestPage'.messageType = "error"
             /\ ~interestPage'.saving
       /\ interestDocs' # interestDocs => saveCall.pc = "write"]_vars

\* the page shows the validation error for a text of white space only,
\* with nothing written and nothing in flight
C15_Witness ==
    /\ interestPage.typed = <<" ", " ">>
    /\ interestPage.message = <<"error_invalid_interest_rate">>
    /\ interestPage.messageType = "error"
    /\ saveCall.pc = "none"
    /\ interestDocs = <<>>

\* C16: the interest collection is an append-only history: no step
\* modifies or removes a stored record, and every save whose write
\* succeeds adds one record.
C16_AppendOnlyHistory ==
    [][/\ \A i \in DOMAIN interestDocs :
              i \in DOMAIN interestDocs' /\ interestDocs'[i] = interestDocs[i]
       /\ WriteSettles(TRUE) => Len(interestDocs') = Len(interestDocs) + 1]_vars

DepositInFlight(id) ==
    \E call \in calls : call.page = "deposits" /\ call.id = id

LoanInFlight(id) == \E call \in calls : call.page = "loans" /\ call.id = id

\* C19: the in-flight flag of a deposit, of a loan and of the interest
\* save is set exactly while a handler invocation for it awaits the
\* backend: set from before the call is issued until it settles, with
\* success or with failure, and not set when nothing is in flight.
C19_FlagsWhileInFlight ==
    /\ \A id \in ItemIds :
           Truthy(depositsPage.processing, id) <=> DepositInFlight(id)
    /\ \A id \in ItemIds :
           Truthy(loansPage.processing, id) <=> LoanInFlight(id)
    /\ interestPage.saving <=> saveCall.pc # "none"

\* an approve / deny call of a deposit failed, and the deposit's flag is
\* cleared again with nothing in flight
C19_Witness ==
    /\ depositsPage.error # <<>>
    /\ 1 \in DOMAIN depositsPage.processing
    /\ depositsPage.processing[1] = FALSE
    /\ calls = NoCalls

----------------------------------------------------------------------------
(* Properties of the chunking *)

RECURSIVE Flatten(_)
Flatten(seqs) == IF seqs = <<>> THEN <<>> ELSE Head(seqs) \o Flatten(Tail(seqs))

\* C22: the chunks partition the list of user ids: every chunk holds
\* between 1 and 10 ids, the chunks one after the other are the list
\* itself (every id in exactly one chunk, order preserved), and without
\* users no query is issued.
C22_ChunksPartitionIds ==
    chunkRet.done =>
        /\ \A c \in DOMAIN chunkRet.userIdChunks :
               Len(chunkRet.userIdChunks[c]) \in 1..10
        /\ Flatten(chunkRet.userIdChunks) = chunkArg
        /\ \A id \in { chunkArg[i] : i \in DOMAIN chunkArg } :
               Cardinality({ c \in DOMAIN chunkRet.userIdChunks :
                               \E k \in DOMAIN chunkRet.userIdChunks[c] :
                                   chunkRet.userIdChunks[c][k] = id }) = 1
        /\ chunkArg = <<>> => chunkRet.queries = {}

\* twenty-one ids were split into chunks of 10, 10 and 1
C22_Witness ==
    /\ chunkRet.done
    /\ Len(chunkArg) = 21
    /\ Len(chunkRet.userIdChunks) = 3
    /\ Len(chunkRet.userIdChunks[3]) = 1

----------------------------------------------------------------------------
(* Properties of the blocked-user check *)

\* the user's document exists and its isBlocked field is the boolean true
Blocked == userDoc.exists /\ userDoc.isBlocked = "bool:true"

\* the number of invocations that have issued signOut
SignOutsIn(list) == Cardinality({ i \in DOMAIN list : list[i].pc = "signOut" })

\* C23: checkUserBlockStatus returns true exactly when a user was signed
\* in, the read succeeded, the document existed and its isBlocked field
\* was the boolean true; it returns false without a user, for a missing
\* document and for a failed read, and a failed read neither signs the
\* user out nor issues a sign-out.
C23_BlockStatusExact ==
    [][/\ (lastReturn'.read # "not called") =>
              (lastReturn'.value <=>
                   (lastReturn'.user # <<>> /\ lastReturn'.read = "bool:true"))
       /\ (\E i \in DOMAIN checks : GetDocSettles(i, FALSE)) =>
              /\ authUser' = authUser
              /\ SignOutsIn(checks') <= SignOutsIn(checks)
              /\ lastReturn'.value = FALSE]_vars

\* the read of a blocked user's document failed: false was returned and
\* the user is still signed in
C23_Witness ==
    /\ lastReturn.read = "failed"
    /\ lastReturn.value = FALSE
    /\ Blocked
    /\ authUser # <<>>
    /\ checks = <<>>

CheckerStepsInOrder ==
    /\ (location' = "/blocked" /\ location # "/blocked")
          => (authUser' = <<>> /\ SignOutsIn(checks) > SignOutsIn(checks'))
    /\ (SignOutsIn(checks') > SignOutsIn(checks)) => Blocked
    /\ (authUser' # authUser) => (SignOutsIn(checks) > 0)

----------------------------------------------------------------------------
(* Properties of accepting and denying (loans page, deposits page).        *)

\* the accept call on a loan finishes in this step
AcceptFinishes(id) ==
    /\ \E call \in calls :
          call.page = "loans" /\ call.id = id /\ call.status = "accepted"
    /\ ~ \E call \in calls' : call.page = "loans" /\ call.id = id

AcceptedOnlyWithReceipt ==
    \A id \in ItemIds :
       /\ (docStatus.loans[id] # "accepted"
             /\ docStatus'.loans[id] = "accepted")
          => (/\ Truthy(loansPage.receiptFiles, id)
              /\ \E call \in calls :
                    /\ call.page = "loans" /\ call.id = id
                    /\ call.status = "accepted" /\ call.stage = "update"
                    /\ call.receiptUrl = uploadToCloudinary
                    /\ docStatus'.receiptUrl[id] = call.receiptUrl)
       /\ (AcceptFinishes(id) /\ docStatus'.loans[id] # "accepted")
          => (/\ docStatus' = docStatus
              /\ Truthy(loansPage'.receiptFiles, id))

\* C25: a loan's status becomes "accepted" only in the settling of the
\* status write of an accept on a loan with a receipt selected, issued after
\* the upload returned the receipt URL and carrying that URL; when the upload
\* or the write fails, the stored documents are unchanged and the selected
\* receipt file is kept.
C25_AcceptedAfterUpload == [][AcceptedOnlyWithReceipt]_vars

C25_Witness ==
    /\ route = "loans"
    /\ docStatus.loans[1] = "accepted"
    /\ docStatus.receiptUrl[1] = uploadToCloudinary
    /\ docStatus.loans[2] = "pending"
    /\ loansPage.error = <<"Failed to accept loan: ">>
    /\ Truthy(loansPage.receiptFiles, 2)
    /\ calls = NoCalls

FinalStatusKept ==
    \A coll \in {"deposits", "loans"} : \A id \in ItemIds :
       (docStatus[coll][id] \in {"accepted", "denied"})
          => (docStatus'[coll][id] = docStatus[coll][id])

\* C26: once a record's status is "accepted" or "denied", no step changes
\* it again, a second admin session and stale snapshots included.
C26_StatusFinal == [][FinalStatusKept]_vars

----------------------------------------------------------------------------
(* Properties of the modal's user and of the page's three data states      *)

\* C29: whenever a user is selected for the modal, the report store has an
\* entry for that user's id, also after a fetchUserReports invocation
\* returned, with the users loaded or not, while the modal was open.
C29_SelectedUserInStore ==
    selectedUser # <<>> => selectedUser[1] \in DOMAIN userReports

\* the chart shows the monthly data that the comparison data hold for the
\* selected year: both were set by one invocation, from its monthlyData
ChartMatchesComparison ==
    /\ chartData # <<>>
    /\ comparisonData # <<>>
    /\ chartData[1] = ChartOf(comparisonData[1].currentYear.monthlyData)

\* C30: whenever loading is false and no error is shown, the chart data and
\* the comparison data (and with them the report store) were set by the
\* same fetchUserReports invocation.
C30_OneInvocationShown == (~loading /\ error = Null) => ChartMatchesComparison

----------------------------------------------------------------------------
(* Properties of the listening views and of the chat *)

ListenersOf(q) == { l \in listeners : l.query = q }

\* nobody is signed in on the chat, or the view is not mounted
TornDown ==
    ~screen.mounted \/ (screen.name = "chat" /\ screen.currentUser = <<>>)

\* C21: at most one listener is active per query, and none is active once
\* the view is unmounted or, on the chat, once nobody is signed in: every
\* listener an effect registered is unsubscribed when the effect runs again
\* and at unmount.
C21_ListenersUnsubscribed ==
    /\ \A q \in Effects : Cardinality(ListenersOf(q)) <= 1
    /\ TornDown => listeners = {}

\* the loans page after a users snapshot: the loans effect has run again
\* and both listeners are active
C21_Witness ==
    /\ screen.name = "loans" /\ screen.mounted /\ screen.usersLoaded
    /\ ListenersOf("users") # {}
    /\ ListenersOf("loans") # {}

\* an invocation is started only by a signed-in user with a text that is
\* not blank or with an image
SendsOnlyContent ==
    Len(sends') > Len(sends)
       => /\ screen.currentUser # <<>>
          /\ Trim(chatForm.newMessage) # <<>> \/ chatForm.selectedImage # <<>>

\* a message is created only by the write of an invocation, after its
\* upload if it has an image
CreatedBySend ==
    messagesDb' # messagesDb
       => \E i \in DOMAIN sends :
             /\ sends[i].pc = "addDoc"
             /\ sends' = RemoveAt(sends, i)
             /\ messagesDb' = Append(messagesDb,
                                     [text     |-> sends[i].text,
                                      imageUrl |-> sends[i].imageUrl,
                                      userId   |-> sends[i].userId])

\* an invocation that ends without a message leaves text and image alone
FailureKeepsInput ==
    (Len(sends') < Len(sends) /\ messagesDb' = messagesDb)
       => /\ chatForm'.newMessage = chatForm.newMessage
          /\ chatForm'.selectedImage = chatForm.selectedImage

SendStepsInOrder == SendsOnlyContent /\ CreatedBySend /\ FailureKeepsInput

\* C27: sendMessage starts no write without a signed-in user or with a blank
\* text and no image; a message is created only when its write succeeds;
\* when the upload or the write fails no message is created and the typed
\* text and the selected image are kept.
C27_NoMessageOnFailure == [][SendStepsInOrder]_vars

\* a send has failed, a later one has succeeded and cleared the input
C27_Witness ==
    /\ screen.mounted
    /\ chatForm.alerted
    /\ chatForm.newMessage = <<>> /\ chatForm.selectedImage = <<>>
    /\ Len(messagesDb) = 1
    /\ messagesDb[1].imageUrl # <<>>
    /\ sends = <<>>

\* after teardown the interval is cleared
HeartbeatStopped == TornDown => ~presence.heartbeat

\* C28: after the teardown of the chat the heartbeat is stopped, and once
\* the writes to the user's document have settled isOnline is false.
C28_OfflineAfterTeardown ==
    (screen.name = "chat" /\ TornDown)
       => /\ ~presence.heartbeat
          /\ presence.writes = <<>> => ~presence.isOnline

====
